---- MODULE Spec2Model ----
(***************************************************************************)
(* WireWAN: the deployment engine (DeploymentService), the job endpoints   *)
(* and the RouterOS client (MikrotikAPIClient), modelled as a state        *)
(* machine over one managed MikroTik peer and its router.                  *)
(*                                                                         *)
(* A comment of a router resource is a sequence of text pieces; the piece  *)
(* COMMENT_PREFIX stands for the literal "WAN-Overlay-Manager:".  So       *)
(* <<COMMENT_PREFIX, "peer-", "p1">> is a managed comment and              *)
(* <<"legacy ", COMMENT_PREFIX, "x">> merely contains the prefix text.     *)
(***************************************************************************)
EXTENDS Integers, Sequences, FiniteSets, TLC

VARIABLES
    router,     \* the router's configuration: family -> set of resources
    router0,    \* the router's configuration before any request (history)
    jobs,       \* table deployment_jobs: sequence of rows, job id = index
    task,       \* the background task of each job (_execute_deployment)
    clear,      \* the clear request (remove_managed_resources): position, ids to delete
    overlay,    \* which of the Overlays the database holds (peers, subnets, services)
    reply,      \* the response to the request answered in the last step, if any
    store,      \* the WAN's ranges, its peers' and services' addresses, open requests
    mikrotik_api_status,  \* Peer.mikrotik_api_status of each peer of the overlay
    inflight,   \* requests on jobs between their select and their commit
    peer_columns, \* Peer.peer_metadata and Peer.mikrotik_auto_deploy of each peer
    hash_seed,  \* the string hash seed of the running server process
    undecryptable  \* the stored secrets that decrypt_value fails on: <<peer, secret>>

vars == <<router, router0, jobs, task, clear, overlay, reply, store,
          mikrotik_api_status, inflight, peer_columns, hash_seed, undecryptable>>

(***************************************************************************)
(* Bounds of the model.                                                    *)
(***************************************************************************)
\* rows of deployment_jobs ever created
MaxJobs == 2

\* background tasks that are between their first and their last step at once
MaxRunningTasks == 1

(***************************************************************************)
(* Text helpers.                                                           *)
(***************************************************************************)
COMMENT_PREFIX == "WAN-Overlay-Manager:"

\* str.startswith(prefix), guarded by "comment and ..." (an empty comment is falsy)
StartsWithPrefix(comment) == Len(comment) >= 1 /\ comment[1] = COMMENT_PREFIX

\* "comment_filter in r.get('comment', '')": substring match
ContainsPrefix(comment) == \E i \in 1..Len(comment) : comment[i] = COMMENT_PREFIX

SetMin(S) == CHOOSE x \in S : \A y \in S : x <= y

SetMax(S) == CHOOSE x \in S : \A y \in S : x >= y

(***************************************************************************)
(* Resource families of the router, by the keys of get_managed_resources.  *)
(***************************************************************************)
Families == {"wireguard_interfaces", "wireguard_peers", "ip_addresses",
             "routes", "firewall_filter_rules", "nat_rules"}

\* A desired-state entry: name (interfaces), interface (peers, addresses),
\* comment, and data (the remaining fields, as a tuple of strings).
\* the kinds of the plan's summary
PlanKinds == {"ips", "routes", "firewall", "nat", "peers"}

NoPlan == [k \in PlanKinds |-> <<0, 0, 0, 0>>]

\* the last step answered no request and completed no apply
NoReply ==
    [op |-> "none", peer_id |-> "", job_id |-> 0, approve |-> FALSE,
     status |-> 0, in_sync |-> FALSE, issues |-> {}, plan |-> NoPlan,
     body |-> <<>>]

Item(name, interface, comment, data) ==
    [name |-> name, interface |-> interface, comment |-> comment, data |-> data]

\* A resource on the router: an entry with its ".id".
Resource(id, item) ==
    [id |-> id, name |-> item.name, interface |-> item.interface,
     comment |-> item.comment, data |-> item.data]

ItemOf(r) == Item(r.name, r.interface, r.comment, r.data)

Ids(rs) == {r.id : r \in rs}

(***************************************************************************)
(* The overlay (read by the configuration generator): the managed peer p1  *)
(* and one other peer p2 of the same WAN.                                  *)
(***************************************************************************)
SharedServicesRange == "10.0.5.0/24"

OverlayPeers ==
    <<[id |-> "p1", type |-> "mikrotik", public_key |-> "K1",
       tunnel_ip |-> "10.0.0.1", listen_port |-> "51820",
       mikrotik_interface_name |-> "", endpoint |-> "",
       local_subnets |-> <<>>,
       published_services |->
           <<[id |-> "s1", is_active |-> TRUE, protocol |-> "tcp",
              shared_ip |-> "10.0.5.1", shared_port |-> 8080,
              local_ip |-> "192.168.1.10", local_port |-> 80]>>],
      [id |-> "p2", type |-> "server", public_key |-> "K2",
       tunnel_ip |-> "10.0.0.2", listen_port |-> "51820",
       mikrotik_interface_name |-> "", endpoint |-> "203.0.113.5:51820",
       local_subnets |->
           <<[cidr |-> "192.168.10.0/24", is_routed |-> TRUE,
              nat_enabled |-> FALSE, nat_translated_cidr |-> ""]>>,
       published_services |-> <<>>]>>

\* the same WAN when p1 publishes its service on both protocols and p2 has two
\* routed subnets
SharedCommentPeers ==
    <<[OverlayPeers[1] EXCEPT !.published_services =
           <<[@[1] EXCEPT !.protocol = "both"]>>],
      [OverlayPeers[2] EXCEPT !.local_subnets =
           <<[cidr |-> "192.168.20.0/24", is_routed |-> TRUE,
              nat_enabled |-> FALSE, nat_translated_cidr |-> ""],
             [cidr |-> "192.168.10.0/24", is_routed |-> TRUE,
              nat_enabled |-> FALSE, nat_translated_cidr |-> ""]>>]>>

\* the contents the overlay tables may have
Overlays == <<OverlayPeers, SharedCommentPeers>>

\* get_wan_peers: the peers of the WAN as the database holds them
Peers == Overlays[overlay]

PeerIds == {OverlayPeers[i].id : i \in 1..Len(OverlayPeers)}

\* Peer.mikrotik_api_status of peers nobody has connected to yet (the
\* column's default); the rows of the peers table are the domain
NoApiStatus == [p \in PeerIds |-> "unknown"]

\* peer_metadata (the keys it holds with a true value) and
\* mikrotik_auto_deploy of peers created without either (the columns'
\* defaults)
NoColumns ==
    [p \in PeerIds |-> [peer_metadata |-> {}, mikrotik_auto_deploy |-> FALSE]]

\* select(Peer).where(Peer.id == peer_id) among all_peers
PeerOf(all_peers, peer_id) ==
    all_peers[CHOOSE i \in 1..Len(all_peers) : all_peers[i].id = peer_id]

GetPeer(peer_id) == PeerOf(Peers, peer_id)

\* peer.mikrotik_interface_name or "wg-wan-overlay"
InterfaceName(peer) ==
    IF peer.mikrotik_interface_name # "" THEN peer.mikrotik_interface_name
    ELSE "wg-wan-overlay"

(***************************************************************************)
(* ConfigGeneratorService.get_mikrotik_desired_state.                      *)
(***************************************************************************)
ManagedComment(kind, id) == <<COMMENT_PREFIX, kind, id>>

\* nat_translated_cidr if NAT is on and a translation is set, else the raw cidr
SubnetCidr(subnet) ==
    IF subnet.nat_enabled /\ subnet.nat_translated_cidr # ""
    THEN subnet.nat_translated_cidr ELSE subnet.cidr

SeqRange(s) == {s[i] : i \in 1..Len(s)}

RECURSIVE Flatten(_)
Flatten(ss) == IF ss = <<>> THEN <<>> ELSE Head(ss) \o Flatten(Tail(ss))

IsRouted(subnet) == subnet.is_routed

IsActive(service) == service.is_active

\* the allowed-address set of the entry for other_peer ("set(allowed_ips)")
AllowedAddress(other_peer) ==
    (IF other_peer.tunnel_ip # "" THEN {<<other_peer.tunnel_ip, "/32">>} ELSE {})
    \cup {<<SubnetCidr(sn), "">> : sn \in {x \in SeqRange(other_peer.local_subnets) : x.is_routed}}
    \cup {<<sv.shared_ip, "/32">> : sv \in {x \in SeqRange(other_peer.published_services) : x.is_active}}
    \cup {<<SharedServicesRange, "">>}

DesiredPeers(all_peers, peer) ==
    LET others == SelectSeq(all_peers,
                      LAMBDA o : o.id # peer.id /\ o.public_key # "")
    IN  [i \in 1..Len(others) |->
            Item("", InterfaceName(peer),
                 ManagedComment("peer-", others[i].id),
                 <<others[i].public_key, AllowedAddress(others[i]),
                   others[i].endpoint>>)]

\* (mutant) the route to the shared services range carries a bare comment
DesiredRoutes_SharedRouteUnmarked(all_peers, peer) ==
    LET others == SelectSeq(all_peers, LAMBDA o : o.id # peer.id)
        routed(o) == SelectSeq(o.local_subnets, IsRouted)
        routesOf(o) ==
            [k \in 1..Len(routed(o)) |->
                Item("", "", ManagedComment("route-to-", o.id),
                     <<SubnetCidr(routed(o)[k]), InterfaceName(peer)>>)]
    IN  Flatten([i \in 1..Len(others) |-> routesOf(others[i])])
        \o <<Item("", "", <<"route-shared-services-", peer.id>>,
                  <<SharedServicesRange, InterfaceName(peer)>>)>>

DesiredRoutes(all_peers, peer) ==
    LET others == SelectSeq(all_peers, LAMBDA o : o.id # peer.id)
        routed(o) == SelectSeq(o.local_subnets, IsRouted)
        routesOf(o) ==
            [k \in 1..Len(routed(o)) |->
                Item("", "", ManagedComment("route-to-", o.id),
                     <<SubnetCidr(routed(o)[k]), InterfaceName(peer)>>)]
    IN  Flatten([i \in 1..Len(others) |-> routesOf(others[i])])
        \o <<Item("", "", ManagedComment("route-shared-services-", peer.id),
                  <<SharedServicesRange, InterfaceName(peer)>>)>>

DesiredFirewallRules(peer) ==
    <<Item("", "", ManagedComment("allow-input-wan-", peer.id),
           <<"input", "accept", InterfaceName(peer), "">>),
      Item("", "", ManagedComment("allow-from-wan-", peer.id),
           <<"forward", "accept", InterfaceName(peer), "">>),
      Item("", "", ManagedComment("allow-to-wan-", peer.id),
           <<"forward", "accept", "", InterfaceName(peer)>>)>>

\* rule["dst-port"] = str(service.shared_port) if the port is set and > 0
\* (likewise to-ports); "" stands for a rule without the key
PortField(port) == IF port > 0 THEN ToString(port) ELSE ""

\* (mutant) a service on both protocols gets a tcp rule only
Protocols_TcpOnly(service) ==
    IF service.protocol = "both" THEN <<"tcp">> ELSE <<service.protocol>>

Protocols(service) ==
    IF service.protocol = "both" THEN <<"tcp", "udp">> ELSE <<service.protocol>>

DesiredNatRules(peer) ==
    LET active == SelectSeq(peer.published_services, IsActive)
        rulesOf(sv) ==
            [k \in 1..Len(Protocols(sv)) |->
                Item("", "", ManagedComment("service-", sv.id),
                     <<"dstnat", sv.shared_ip, Protocols(sv)[k], "dst-nat",
                       sv.local_ip, PortField(sv.shared_port),
                       PortField(sv.local_port)>>)]
    IN  Flatten([i \in 1..Len(active) |-> rulesOf(active[i])])

GetMikrotikDesiredState(all_peers, peer_id) ==
    LET peer == PeerOf(all_peers, peer_id)
    IN  [interface |->
             Item(InterfaceName(peer), "", ManagedComment("peer-", peer.id),
                  <<peer.listen_port, "private-key">>),
         wireguard_peers |-> DesiredPeers(all_peers, peer),
         ip_addresses |->
             <<Item("", InterfaceName(peer), ManagedComment("peer-", peer.id),
                    <<peer.tunnel_ip, "/24">>)>>,
         routes |-> DesiredRoutes(all_peers, peer),
         firewall_filter_rules |-> DesiredFirewallRules(peer),
         nat_rules |-> DesiredNatRules(peer)]

\* the desired state of every peer, for each contents of the overlay tables
\* (they do not change while jobs run)
DesiredStates ==
    [o \in 1..Len(Overlays) |->
        [p \in PeerIds |-> GetMikrotikDesiredState(Overlays[o], p)]]

(***************************************************************************)
(* MikrotikAPIClient: the reads.                                           *)
(***************************************************************************)
\* get_managed_resources: every family, comment_filter = COMMENT_PREFIX
GetManagedResources(rt) ==
    [f \in Families |-> {r \in rt[f] : ContainsPrefix(r.comment)}]

\* get_wireguard_peers(interface=...) / get_ip_addresses(interface=...):
\* the list of a family as an apply reads it
ListForApply(rt, family, interface_name) ==
    IF family \in {"wireguard_peers", "ip_addresses"}
    THEN {r \in rt[family] : r.interface = interface_name}
    ELSE rt[family]

(***************************************************************************)
(* MikrotikAPIClient: the writes, and what the router does with them.      *)
(***************************************************************************)
\* command="add": the router stores the entry under a fresh ".id"
RouterAdd(rt, family, id, item) ==
    [rt EXCEPT ![family] = @ \cup {Resource(id, item)}]

\* command="remove" by ".id"
RouterRemove(rt, family, id) ==
    [rt EXCEPT ![family] = {r \in @ : r.id # id}]

\* update_wireguard_interface(id, {listen-port, private-key, comment})
RouterSetInterface(rt, id, item) ==
    [rt EXCEPT !["wireguard_interfaces"] =
        {IF r.id = id
         THEN [r EXCEPT !.comment = item.comment, !.data = item.data]
         ELSE r : r \in @}]

\* The errors _execute_sync turns into MikrotikAPIError(message, detail)
ApiErrors ==
    {[type |-> "MikrotikAPIError", message |-> "API Error", detail |-> "failure"],
     [type |-> "MikrotikAPIError", message |-> "Connection closed", detail |-> ""]}

\* the router's answer to a command on an ".id" it does not have (TrapError)
NoSuchItem ==
    [type |-> "MikrotikAPIError", message |-> "API Error", detail |-> "no such item"]

\* the router's answer to adding an interface under a name in use (TrapError)
NameInUse ==
    [type |-> "MikrotikAPIError", message |-> "API Error", detail |-> "name in use"]

(***************************************************************************)
(* Deployment jobs.                                                        *)
(***************************************************************************)
JobIds == 1..Len(jobs)

Terminal == {"completed", "failed", "cancelled"}

\* create_deployment_job: a new row, status pending, progress 0; no
\* completed_at, an empty operations_log, no api_call_logs rows.  deleted tells
\* that the row has since been removed from the table: what remains is the
\* copy in the session of its worker.
NewJob(peer_id) ==
    [peer_id |-> peer_id, status |-> "pending", progress_percent |-> 0,
     error_message |-> <<>>, backup_config |-> <<>>,
     completed_at |-> FALSE, operations_log |-> <<>>, api_call_logs |-> <<>>,
     deleted |-> FALSE]

\* _log_api_call: one MikrotikApiCallLog row for the job (no step of the
\* module calls it)
LogApiCall(job, method, endpoint, request_body, response_status, error_message) ==
    [job EXCEPT !.api_call_logs =
        Append(@, [method |-> method, endpoint |-> endpoint,
                   request_body |-> request_body,
                   response_status |-> response_status,
                   error_message |-> error_message])]

\* the task asyncio.create_task starts for the job; lastWrite records the last
\* router write the task has made (family, command, id), boundarySeen that it
\* committed a milestone while the row said cancelled
NewTask ==
    [pc |-> "start", fam |-> 0, todo |-> {}, target |-> 0, idx |-> 1,
     conn |-> "untested", lastWrite |-> <<>>,
     boundarySeen |-> FALSE]

\* (mutant) routes are replaced before addresses
ApplyOrder_RoutesFirst ==
    <<"wireguard_peers", "routes", "ip_addresses", "firewall_filter_rules",
      "nat_rules">>

\* the order of the replace-managed steps of an apply
ApplyOrder ==
    <<"wireguard_peers", "ip_addresses", "routes", "firewall_filter_rules",
      "nat_rules">>

\* progress committed when a family's step is complete
\* (mutant) the routes step reports less than the addresses step before it
FamilyMilestone_RoutesLow(family) ==
    CASE family = "wireguard_peers" -> 50
      [] family = "ip_addresses" -> 60
      [] family = "routes" -> 55
      [] family = "firewall_filter_rules" -> 80
      [] family = "nat_rules" -> 90

FamilyMilestone(family) ==
    CASE family = "wireguard_peers" -> 50
      [] family = "ip_addresses" -> 60
      [] family = "routes" -> 70
      [] family = "firewall_filter_rules" -> 80
      [] family = "nat_rules" -> 90

\* except MikrotikAPIError: f"{e.message}: {e.detail}" if e.detail else e.message
\* except Exception: str(e) if str(e) else f"Unexpected error (...)"
ErrorMessage(e) ==
    IF e.type = "MikrotikAPIError"
    THEN IF e.detail # "" THEN <<e.message, ": ", e.detail>> ELSE <<e.message>>
    ELSE IF e.message # "" THEN <<e.message>>
         ELSE <<"Unexpected error (", e.type, ")">>

\* (mutant) the result of the connection test is not looked at
ConnectionVerified_Ignored(conn_result) == TRUE

\* "if not conn_result.success: raise MikrotikAPIError(...)"
ConnectionVerified(conn_result) == conn_result.success

\* (mutant) the backup is taken after the interface has been written
StepAfter_BackupLate(pc) ==
    CASE pc = "start" -> "conn"
      [] pc = "conn" -> "desired"
      [] pc = "desired" -> "iface_list"
      [] pc = "iface_list" -> "iface_write"
      [] pc = "iface_write" -> "backup"
      [] pc = "backup" -> "list"

\* the straight-line part of _execute_deployment: what follows each step
StepAfter(pc) ==
    CASE pc = "start" -> "conn"
      [] pc = "conn" -> "desired"
      [] pc = "desired" -> "backup"
      [] pc = "backup" -> "iface_list"
      [] pc = "iface_list" -> "iface_write"
      [] pc = "iface_write" -> "list"

\* progress committed on completion of each of these steps
StepMilestone(pc) ==
    CASE pc = "start" -> 5
      [] pc = "conn" -> 10
      [] pc = "desired" -> 15
      [] pc = "backup" -> 20
      [] pc = "iface_write" -> 30

\* a commit of progress p by task j; the row's status is left as it is
Committed(j, p) ==
    [jobs EXCEPT ![j].progress_percent = p]

\* the task after a step that committed (or not) a new progress value
Seen(j, t, p) ==
    [t EXCEPT !.boundarySeen =
        @ \/ (p # jobs[j].progress_percent /\ jobs[j].status = "cancelled")]

\* the task is over: its local variables are gone
Ended(t) ==
    [t EXCEPT !.pc = "done", !.fam = 0, !.todo = {}, !.target = 0, !.idx = 1]

\* the except handlers: status failed, error_message, completed_at; only
\* "except Exception" adds the traceback to operations_log
FailedJob(j, e) ==
    [jobs EXCEPT ![j].status = "failed",
                 ![j].error_message = ErrorMessage(e),
                 ![j].completed_at = TRUE,
                 ![j].operations_log =
                     IF e.type = "MikrotikAPIError" THEN @
                     ELSE Append(@, "traceback")]

\* an exception reaches the handlers; commit; the task ends
Failed(j, e) ==
    /\ jobs' = FailedJob(j, e)
    /\ task' = [task EXCEPT ![j] = Ended(@)]

(***************************************************************************)
(* The requests that create and cancel jobs.                               *)
(***************************************************************************)
\* DeploymentService.deploy_configuration: ValueError unless the peer exists
\* and is a MikroTik; else a pending job and its background task
DeployConfiguration(peer_id) ==
    /\ Len(jobs) < MaxJobs
    /\ peer_id \in PeerIds
    /\ peer_id \in DOMAIN mikrotik_api_status
    /\ GetPeer(peer_id).type = "mikrotik"
    /\ jobs' = Append(jobs, NewJob(peer_id))
    /\ task' = Append(task, NewTask)
    /\ UNCHANGED <<router, router0, clear, overlay, store, mikrotik_api_status, inflight,
                   peer_columns, hash_seed, undecryptable>>

\* the non-empty comments of a list of entries
Comments(items) == {x.comment : x \in {y \in items : y.comment # <<>>}}

\* summarize(kind, desired_items, current_items): to_create, to_delete,
\* managed_current, managed_desired
Summarize(desired_items, current_items) ==
    LET d == Comments(desired_items)
        c == Comments(current_items)
    IN  <<Cardinality(d \ c), Cardinality(c \ d), Cardinality(c), Cardinality(d)>>

\* plan_configuration: desired state against get_managed_resources()
PlanConfiguration(desired, current) ==
    [k \in PlanKinds |->
        CASE k = "ips" ->
               Summarize(SeqRange(desired.ip_addresses), current["ip_addresses"])
          [] k = "routes" ->
               Summarize(SeqRange(desired.routes), current["routes"])
          [] k = "firewall" ->
               Summarize(SeqRange(desired.firewall_filter_rules),
                         current["firewall_filter_rules"])
          [] k = "nat" ->
               Summarize(SeqRange(desired.nat_rules), current["nat_rules"])
          [] k = "peers" ->
               Summarize(SeqRange(desired.wireguard_peers), current["wireguard_peers"])]

\* settings.REQUIRE_DEPLOY_APPROVAL
REQUIRE_DEPLOY_APPROVAL == TRUE

\* (mutant) the approval setting is not looked at
ApprovalRequired_Never(approve) == FALSE

\* "if settings.REQUIRE_DEPLOY_APPROVAL and not approve"
ApprovalRequired(approve) == REQUIRE_DEPLOY_APPROVAL /\ ~approve

\* POST /peers/{id}/mikrotik/deploy?approve=...: without approval the plan is
\* returned (REQUIRE_DEPLOY_APPROVAL), with it deploy_configuration runs
DeployToMikrotik(peer_id, approve) ==
    IF ApprovalRequired(approve)
    THEN /\ peer_id \in PeerIds
         /\ reply' =
               IF GetPeer(peer_id).type = "mikrotik"
               THEN [NoReply EXCEPT
                        !.op = "deploy", !.peer_id = peer_id, !.status = 200,
                        !.plan = PlanConfiguration(DesiredStates[overlay][peer_id],
                                                   GetManagedResources(router))]
               ELSE [NoReply EXCEPT
                        !.op = "deploy", !.peer_id = peer_id, !.status = 500]
         /\ UNCHANGED <<router, router0, jobs, task, clear, overlay, store, mikrotik_api_status, inflight,
                   peer_columns, hash_seed, undecryptable>>
    ELSE /\ DeployConfiguration(peer_id)
         /\ reply' = [NoReply EXCEPT !.op = "deploy", !.peer_id = peer_id,
                                     !.approve = approve, !.status = 200]

\* POST /jobs/{id}/retry: only a failed job; a new job for the same peer
RetryJob(j) ==
    /\ j \in JobIds
    /\ jobs[j].status = "failed"
    /\ DeployConfiguration(jobs[j].peer_id)
    /\ reply' = [NoReply EXCEPT !.op = "retry", !.job_id = j,
                                !.peer_id = jobs[j].peer_id, !.status = 200]

\* "job.status not in [JobStatus.PENDING, JobStatus.RUNNING]" rejects
Cancellable(status) == status \in {"pending", "running"}

\* POST /jobs/{id}/cancel of a pending or running job, when nothing else
\* runs between its select and its commit
CancelJob(j) ==
    /\ j \in JobIds
    /\ Cancellable(jobs[j].status)
    /\ jobs' = [jobs EXCEPT ![j].status = "cancelled"]
    /\ reply' = [NoReply EXCEPT !.op = "cancel", !.job_id = j, !.status = 200]
    /\ UNCHANGED <<router, router0, task, clear, overlay, store, mikrotik_api_status, inflight,
                   peer_columns, hash_seed, undecryptable>>

\* POST /jobs/{id}/cancel, its select: the row is loaded into the request's
\* session and passes the status test
CancelJobSelect(j) ==
    /\ j \in JobIds
    /\ Cancellable(jobs[j].status)
    /\ inflight' = inflight \cup {[op |-> "cancel", job_id |-> j]}
    /\ reply' = NoReply
    /\ UNCHANGED <<router, router0, jobs, task, clear, overlay, store,
                   mikrotik_api_status, peer_columns, hash_seed,
                   undecryptable>>

\* POST /jobs/{id}/cancel, its commit: UPDATE ... SET status = 'cancelled' on
\* the row as it is by then (only the changed column is written)
CancelJobCommit(j) ==
    /\ [op |-> "cancel", job_id |-> j] \in inflight
    /\ jobs' = [jobs EXCEPT ![j].status = "cancelled"]
    /\ inflight' = inflight \ {[op |-> "cancel", job_id |-> j]}
    /\ reply' = [NoReply EXCEPT !.op = "cancel", !.job_id = j, !.status = 200]
    /\ UNCHANGED <<router, router0, task, clear, overlay, store,
                   mikrotik_api_status, peer_columns, hash_seed,
                   undecryptable>>

\* POST /jobs/{id}/cancel answered 404 (no such job) or 400 (the job is
\* neither pending nor running)
CancelJobRejected(j) ==
    /\ j \in JobIds => ~Cancellable(jobs[j].status)
    /\ reply' = [NoReply EXCEPT !.op = "cancel", !.job_id = j,
                                !.status = IF j \in JobIds THEN 400 ELSE 404]
    /\ UNCHANGED <<router, router0, jobs, task, clear, overlay, store,
                   mikrotik_api_status, inflight, peer_columns, hash_seed,
                   undecryptable>>

\* POST /jobs/{id}/retry answered 404 (no such job) or 400 (the job is not
\* failed)
RetryJobRejected(j) ==
    /\ j \in JobIds => jobs[j].status # "failed"
    /\ reply' = [NoReply EXCEPT !.op = "retry", !.job_id = j,
                                !.status = IF j \in JobIds THEN 400 ELSE 404]
    /\ UNCHANGED <<router, router0, jobs, task, clear, overlay, store,
                   mikrotik_api_status, inflight, peer_columns, hash_seed,
                   undecryptable>>

(***************************************************************************)
(* _execute_deployment, one action per awaited call (the commit that       *)
(* follows a call belongs to the call's action).                           *)
(***************************************************************************)
Desired(j) == DesiredStates[overlay][jobs[j].peer_id]

DesiredInterfaceName(j) == InterfaceName(GetPeer(jobs[j].peer_id))

\* The ".id" the router gives to the entry that task j adds as number idx of
\* family number fam (0: the interface).  Ids are opaque to the program and
\* the router never reuses one; naming them by task and entry keeps them
\* distinct from each other and from the ids of the initial entries.
FreshId(j, fam, idx) == 100 * j + 10 * fam + idx

\* a router write of task t: family, command and id are remembered
Wrote(t, family, op, id) ==
    [t EXCEPT !.lastWrite = <<family, op, id>>]

RunningTasks == {k \in JobIds : task[k].pc \notin {"start", "done"}}

\* job and peer are loaded; status running, progress 5, commit
ExecStart(j) ==
    /\ j \in JobIds
    /\ task[j].pc = "start"
    /\ Cardinality(RunningTasks) < MaxRunningTasks
    /\ jobs' = [jobs EXCEPT ![j].status = "running",
                            ![j].progress_percent = StepMilestone("start")]
    /\ task' = [task EXCEPT ![j] = [Seen(j, @, StepMilestone("start"))
                                        EXCEPT !.pc = StepAfter("start")]]
    /\ UNCHANGED <<router, router0, clear, overlay, store, mikrotik_api_status, inflight,
                   peer_columns, hash_seed, undecryptable>> /\ reply' = NoReply

\* client.test_connection(); a failed test raises MikrotikAPIError
ExecTestConnection(j, conn_result) ==
    /\ j \in JobIds
    /\ task[j].pc = "conn"
    /\ IF ConnectionVerified(conn_result)
       THEN /\ jobs' = Committed(j, StepMilestone("conn"))
            /\ task' = [task EXCEPT ![j] =
                   [Seen(j, @, StepMilestone("conn")) EXCEPT
                       !.pc = StepAfter("conn"),
                       !.conn = IF conn_result.success THEN "ok" ELSE "failed"]]
       ELSE /\ jobs' = [FailedJob(j, [type |-> "MikrotikAPIError",
                                      message |-> "Connection test failed: ",
                                      detail |-> ""])
                         EXCEPT ![j].error_message =
                             <<"Connection test failed: ",
                               conn_result.error_message>>]
            /\ task' = [task EXCEPT ![j] = [Ended(@) EXCEPT !.conn = "failed"]]
    /\ UNCHANGED <<router, router0, clear, overlay, store, mikrotik_api_status, inflight,
                   peer_columns, hash_seed, undecryptable>> /\ reply' = NoReply

\* config_gen.get_mikrotik_desired_state(...); progress 15
ExecDesiredState(j) ==
    /\ j \in JobIds
    /\ task[j].pc = "desired"
    /\ jobs' = Committed(j, StepMilestone("desired"))
    /\ task' = [task EXCEPT ![j] = [Seen(j, @, StepMilestone("desired"))
                                        EXCEPT !.pc = StepAfter("desired")]]
    /\ UNCHANGED <<router, router0, clear, overlay, store, mikrotik_api_status, inflight,
                   peer_columns, hash_seed, undecryptable>> /\ reply' = NoReply

\* job.backup_config = client.get_managed_resources(); progress 20
ExecBackup(j) ==
    /\ j \in JobIds
    /\ task[j].pc = "backup"
    /\ jobs' = [jobs EXCEPT ![j].backup_config = <<GetManagedResources(router)>>,
                            ![j].progress_percent = StepMilestone("backup")]
    /\ task' = [task EXCEPT ![j] = [Seen(j, @, StepMilestone("backup"))
                                        EXCEPT !.pc = StepAfter("backup")]]
    /\ UNCHANGED <<router, router0, clear, overlay, store, mikrotik_api_status, inflight,
                   peer_columns, hash_seed, undecryptable>> /\ reply' = NoReply

\* existing_interfaces = client.get_wireguard_interfaces(); the first one
\* with the desired name is the one to update (0: none, create)
ExecListInterfaces(j) ==
    /\ j \in JobIds
    /\ task[j].pc = "iface_list"
    /\ LET named == {r \in router["wireguard_interfaces"] :
                        r.name = DesiredInterfaceName(j)}
       IN  task' = [task EXCEPT
               ![j].pc = StepAfter("iface_list"),
               ![j].target = IF named = {} THEN 0 ELSE SetMin(Ids(named))]
    /\ UNCHANGED <<router, router0, jobs, clear, overlay, store, mikrotik_api_status, inflight,
                   peer_columns, hash_seed, undecryptable>> /\ reply' = NoReply

\* update_wireguard_interface(id, ...) or create_wireguard_interface(...);
\* progress 30
ExecWriteInterface(j) ==
    /\ j \in JobIds
    /\ task[j].pc = "iface_write"
    /\ LET t == task[j]
           ifaces == router["wireguard_interfaces"]
           done(op, id) == [Seen(j, Wrote(t, "wireguard_interfaces", op, id),
                             StepMilestone("iface_write"))
                           EXCEPT !.pc = StepAfter("iface_write"), !.fam = 1]
       IN  IF t.target # 0
           THEN IF t.target \in Ids(ifaces)
                THEN /\ router' = RouterSetInterface(router, t.target,
                                                     Desired(j).interface)
                     /\ jobs' = Committed(j, StepMilestone("iface_write"))
                     /\ task' = [task EXCEPT ![j] = done("set", t.target)]
                ELSE Failed(j, NoSuchItem) /\ UNCHANGED router
           ELSE IF \E r \in ifaces : r.name = DesiredInterfaceName(j)
                THEN Failed(j, NameInUse) /\ UNCHANGED router
                ELSE /\ router' = RouterAdd(router, "wireguard_interfaces",
                                            FreshId(j, 0, 1), Desired(j).interface)
                     /\ jobs' = Committed(j, StepMilestone("iface_write"))
                     /\ task' = [task EXCEPT ![j] = done("add", FreshId(j, 0, 1))]
    /\ UNCHANGED <<router0, clear, overlay, store, mikrotik_api_status, inflight,
                   peer_columns, hash_seed, undecryptable>> /\ reply' = NoReply

\* Where a replace-managed step stands after one of its calls, and the
\* progress committed by then: deletions left, else additions left (for the
\* peers 40 is committed between the two loops), else the family's milestone
\* and the next family (after the last one, the verification read).
AfterCall(j, t, todo, idx) ==
    LET family == ApplyOrder[t.fam]
        p == IF todo # {} THEN jobs[j].progress_percent
             ELSE IF idx <= Len(Desired(j)[family])
                  THEN IF family = "wireguard_peers" THEN 40
                       ELSE jobs[j].progress_percent
                  ELSE FamilyMilestone(family)
    IN  [progress |-> p,
         task |-> [Seen(j, t, p) EXCEPT
             !.todo = todo,
             !.idx = IF todo = {} /\ idx > Len(Desired(j)[family]) THEN 1 ELSE idx,
             !.pc = IF todo # {} THEN "del"
                    ELSE IF idx <= Len(Desired(j)[family]) THEN "add"
                    ELSE IF t.fam = Len(ApplyOrder) THEN "verify" ELSE "list",
             !.fam = IF todo = {} /\ idx > Len(Desired(j)[family])
                        /\ t.fam < Len(ApplyOrder)
                     THEN t.fam + 1 ELSE t.fam]]

\* existing = client.get_...(); the entries to delete are those whose comment
\* starts with COMMENT_PREFIX
ExecList(j) ==
    /\ j \in JobIds
    /\ task[j].pc = "list"
    /\ LET family == ApplyOrder[task[j].fam]
           existing == ListForApply(router, family, DesiredInterfaceName(j))
           todo == Ids({r \in existing : StartsWithPrefix(r.comment)})
           after == AfterCall(j, task[j], todo, 1)
       IN  /\ jobs' = Committed(j, after.progress)
           /\ task' = [task EXCEPT ![j] = after.task]
    /\ UNCHANGED <<router, router0, clear, overlay, store, mikrotik_api_status, inflight,
                   peer_columns, hash_seed, undecryptable>> /\ reply' = NoReply

\* client.delete_...(entry[".id"]), in the order of the list
ExecDelete(j) ==
    /\ j \in JobIds
    /\ task[j].pc = "del"
    /\ LET family == ApplyOrder[task[j].fam]
           id == SetMin(task[j].todo)
           after == AfterCall(j, Wrote(task[j], family, "remove", id),
                              task[j].todo \ {id}, 1)
       IN  IF id \in Ids(router[family])
           THEN /\ router' = RouterRemove(router, family, id)
                /\ jobs' = Committed(j, after.progress)
                /\ task' = [task EXCEPT ![j] = after.task]
           ELSE Failed(j, NoSuchItem) /\ UNCHANGED router
    /\ UNCHANGED <<router0, clear, overlay, store, mikrotik_api_status, inflight,
                   peer_columns, hash_seed, undecryptable>> /\ reply' = NoReply

\* client.create_...(...) for the next desired entry of the family
ExecCreate(j) ==
    /\ j \in JobIds
    /\ task[j].pc = "add"
    /\ LET family == ApplyOrder[task[j].fam]
           id == FreshId(j, task[j].fam, task[j].idx)
           after == AfterCall(j, Wrote(task[j], family, "add", id), {},
                              task[j].idx + 1)
       IN  /\ router' = RouterAdd(router, family, id,
                                  Desired(j)[family][task[j].idx])
           /\ jobs' = Committed(j, after.progress)
           /\ task' = [task EXCEPT ![j] = after.task]
    /\ UNCHANGED <<router0, clear, overlay, store, mikrotik_api_status, inflight,
                   peer_columns, hash_seed, undecryptable>> /\ reply' = NoReply

\* the verification read; status completed, progress 100, completed_at;
\* a warning replaces operations_log when the interface is not running; the
\* peer's mikrotik_api_status becomes connected; commit
ExecVerify(j, interface_running) ==
    /\ j \in JobIds
    /\ task[j].pc = "verify"
    /\ jobs' = [jobs EXCEPT ![j].status = "completed",
                            ![j].progress_percent = 100,
                            ![j].completed_at = TRUE,
                            ![j].operations_log =
                                IF interface_running THEN @ ELSE <<"warning">>]
    /\ task' = [task EXCEPT ![j] = Ended(Seen(j, @, 100))]
    /\ mikrotik_api_status' =
          [mikrotik_api_status EXCEPT ![jobs[j].peer_id] = "connected"]
    /\ reply' = [NoReply EXCEPT !.op = "apply-completed",
                                !.peer_id = jobs[j].peer_id]
    /\ UNCHANGED <<router, router0, clear, overlay, store, inflight, peer_columns,
                   hash_seed, undecryptable>>

\* the steps that call the router (test_connection reports, it does not raise)
RouterCallPcs ==
    {"backup", "iface_list", "iface_write", "list", "del", "add", "verify"}

\* any router call may raise MikrotikAPIError
ExecApiError(j, e) ==
    /\ j \in JobIds
    /\ task[j].pc \in RouterCallPcs
    /\ Failed(j, e)
    /\ UNCHANGED <<router, router0, clear, overlay, store, mikrotik_api_status, inflight,
                   peer_columns, hash_seed, undecryptable>> /\ reply' = NoReply

\* exceptions that are not MikrotikAPIError: decrypt_value on a stored secret
\* (str(e) is empty), get_mikrotik_desired_state on a peer that is gone
Exceptions ==
    {[type |-> "InvalidToken", message |-> "", detail |-> ""],
     [type |-> "ValueError", message |-> "Peer not found", detail |-> ""]}

\* a step after the first commit raises such an exception
ExecException(j, e) ==
    /\ j \in JobIds
    /\ task[j].pc \in {"conn", "desired"} \cup RouterCallPcs
    /\ Failed(j, e)
    /\ UNCHANGED <<router, router0, clear, overlay, store, mikrotik_api_status, inflight,
                   peer_columns, hash_seed, undecryptable>> /\ reply' = NoReply

\* the database fails while the worker loads its rows.  While it loads the
\* job, the name job is not bound yet: the handler's "job.status = ..."
\* raises in its turn, the task ends and the row keeps its status.  While it
\* loads the peer, the handler marks the job failed.
ExecLoadError(j, job_loaded) ==
    /\ j \in JobIds
    /\ task[j].pc = "start"
    /\ Cardinality(RunningTasks) < MaxRunningTasks
    /\ IF job_loaded
       THEN Failed(j, [type |-> "OperationalError",
                       message |-> "connection lost", detail |-> ""])
       ELSE /\ task' = [task EXCEPT ![j] = Ended(@)]
            /\ UNCHANGED jobs
    /\ UNCHANGED <<router, router0, clear, overlay, store, mikrotik_api_status,
                   inflight, peer_columns, hash_seed, undecryptable>>
    /\ reply' = NoReply

(***************************************************************************)
(* The requests that inspect the router: preflight_check and               *)
(* verify_configuration (plan_configuration is reached through the deploy  *)
(* request without approval).                                              *)
(***************************************************************************)
\* WanNetwork.tunnel_ip_range of the peers' WAN
TunnelIpRange == "10.0.0.0/24"

\* subnets_overlap / overlaps: the networks of the model are pairwise equal
\* or disjoint
SubnetsOverlap(cidr1, cidr2) == cidr1 = cidr2

\* detect_conflicts(wan_id, peer_id, subnets, existing_routes): one conflict
\* per overlap of a subnet with the tunnel range, the shared services range,
\* a subnet of another peer, or a route found on the router (nothing is written)
DetectConflicts(all_peers, peer_id, subnets, existing_routes) ==
    {<<"tunnel_ip_overlap", sn>> : sn \in {x \in subnets :
          SubnetsOverlap(x, TunnelIpRange)}}
    \cup {<<"shared_services_overlap", sn>> : sn \in {x \in subnets :
          SubnetsOverlap(x, SharedServicesRange)}}
    \cup {<<"peer_subnet_overlap", sn>> : sn \in {x \in subnets :
          \E i \in 1..Len(all_peers) :
              /\ all_peers[i].id # peer_id
              /\ \E k \in 1..Len(all_peers[i].local_subnets) :
                    SubnetsOverlap(x, all_peers[i].local_subnets[k].cidr)}}
    \cup {<<"existing_route_overlap", sn>> : sn \in {x \in subnets :
          \E r \in existing_routes : SubnetsOverlap(x, r)}}

\* rule.get("dst-port") of a desired NAT rule: the generator wrote
\* str(shared_port), or left the key out
DesiredWord(value) == IF value = "" THEN <<"None">> ELSE <<"str", value>>

\* nat.get("dst-port") of a rule the router returned: librouteros casts a
\* word of digits to int, so it never equals a str
ParseWord(value) == IF value = "" THEN <<"None">> ELSE <<"int", value>>

\* the clashes preflight_check looks for: the desired entries against the
\* entries of the router that are not managed
ClashIssues(desired, rt) ==
    LET interface_name == desired.interface.name
        desired_port == desired.interface.data[1]
        foreign(rs) == {r \in rs : ~StartsWithPrefix(r.comment)}
        port_clash == {r \in rt["wireguard_interfaces"] :
                          r.data[1] = desired_port /\ r.name # interface_name}
        desired_ip_addresses == {a.data : a \in SeqRange(desired.ip_addresses)}
        desired_route_dsts == {r.data[1] : r \in SeqRange(desired.routes)}
        desired_nat == {<<n.data[1], n.data[2], DesiredWord(n.data[6])>> :
                            n \in SeqRange(desired.nat_rules)}
        desired_fw == {f.data : f \in SeqRange(desired.firewall_filter_rules)}
    IN  (IF \E r \in foreign(rt["wireguard_interfaces"]) : r.name = interface_name
              THEN {<<"interface-name", interface_name>>} ELSE {})
        \cup (IF port_clash # {}
              THEN {<<"listen-port",
                      (CHOOSE r \in port_clash : r.id = SetMin(Ids(port_clash))).name>>}
              ELSE {})
        \cup {<<"ip-address">> \o a.data : a \in {x \in foreign(rt["ip_addresses"]) :
                  x.data \in desired_ip_addresses}}
        \cup {<<"route", r.data[1]>> : r \in {x \in foreign(rt["routes"]) :
                  x.data[1] \in desired_route_dsts}}
        \cup {<<"nat", n.data[1], n.data[2], n.data[6]>> :
                  n \in {x \in foreign(rt["nat_rules"]) :
                      <<x.data[1], x.data[2], ParseWord(x.data[6])>>
                          \in desired_nat}}
        \cup {<<"firewall", f.data[1]>> :
                  f \in {x \in foreign(rt["firewall_filter_rules"]) :
                      x.data \in desired_fw}}

\* preflight_check on a MikroTik peer: the conflicts, then the clashes
PreflightIssues(all_peers, peer_id, desired, rt) ==
    DetectConflicts(all_peers, peer_id,
                    {r.data[1] : r \in SeqRange(desired.routes)},
                    {r.data[1] : r \in rt["routes"]})
    \cup ClashIssues(desired, rt)

\* GET /peers/{id}/mikrotik/preflight when detect_conflicts raises: "except
\* Exception: pass", the issues are those of the remaining checks
PreflightConflictError(peer_id) ==
    /\ peer_id \in PeerIds
    /\ GetPeer(peer_id).type = "mikrotik"
    /\ LET issues == ClashIssues(DesiredStates[overlay][peer_id], router)
       IN  reply' = [NoReply EXCEPT !.op = "preflight", !.peer_id = peer_id,
                                    !.status = 200, !.issues = issues,
                                    !.in_sync = (issues = {}),
                                    !.body = <<"conflict check failed">>]
    /\ UNCHANGED <<router, router0, jobs, task, clear, overlay, store,
                   mikrotik_api_status, inflight, peer_columns, hash_seed,
                   undecryptable>>

\* GET /peers/{id}/mikrotik/preflight; in_sync carries "success"
Preflight(peer_id) ==
    /\ peer_id \in PeerIds
    /\ LET issues ==
             IF GetPeer(peer_id).type # "mikrotik"
             THEN {<<"Peer is not a MikroTik device">>}
             ELSE PreflightIssues(Peers, peer_id, DesiredStates[overlay][peer_id],
                                  router)
       IN  reply' = [NoReply EXCEPT !.op = "preflight", !.peer_id = peer_id,
                                    !.status = 200, !.issues = issues,
                                    !.in_sync = (issues = {})]
    /\ UNCHANGED <<router, router0, jobs, task, clear, overlay, store, mikrotik_api_status, inflight,
                   peer_columns, hash_seed, undecryptable>>

\* _check_missing(set_desired, current_items, field)
CheckMissing(set_desired, current_values) ==
    {v \in set_desired : v \notin current_values}

\* _index_by_comment on the desired list: a later entry replaces an earlier
\* one that has the same comment
DesiredIndex(items) ==
    [c \in Comments(SeqRange(items)) |->
        items[SetMax({i \in 1..Len(items) : items[i].comment = c})]]

\* _index_by_comment on a list the router returned: the last entry the router
\* lists under a comment.  Filter and NAT rules are listed in rule order, a
\* new rule is appended (ordered); routes are listed in the order of the
\* routing table, which is not the order of creation.
CurrentIndexes(items, ordered) ==
    {f \in [Comments(items) -> items] :
        \A c \in Comments(items) :
            /\ f[c].comment = c
            /\ ordered => f[c].id = SetMax(Ids({x \in items : x.comment = c}))}

\* the drift check of one family: an issue per field that differs between the
\* desired and the current entry indexed under the same comment
Drift(kind, fields, desired_index, current_index) ==
    UNION {{<<"differs", kind>> \o c \o <<fields[i]>> :
               i \in {k \in 1..Len(fields) :
                         desired_index[c].data[k] # current_index[c].data[k]}} :
           c \in DOMAIN desired_index \cap DOMAIN current_index}

\* verify_configuration on a MikroTik peer: current is get_managed_resources()
VerifyIssues(desired, current, fw_index, nat_index, route_index) ==
    (IF \E r \in current["wireguard_interfaces"] : r.name = desired.interface.name
     THEN {} ELSE {<<"missing-interface", desired.interface.name>>})
    \cup {<<"missing-ip">> \o v :
             v \in CheckMissing({a.data : a \in SeqRange(desired.ip_addresses)},
                                {r.data : r \in current["ip_addresses"]})}
    \cup {<<"missing-route", v>> :
             v \in CheckMissing({r.data[1] : r \in SeqRange(desired.routes)},
                                {r.data[1] : r \in current["routes"]})}
    \cup {<<"missing-firewall">> \o v :
             v \in CheckMissing(Comments(SeqRange(desired.firewall_filter_rules)),
                                {r.comment : r \in current["firewall_filter_rules"]})}
    \cup {<<"missing-nat">> \o v :
             v \in CheckMissing(Comments(SeqRange(desired.nat_rules)),
                                {r.comment : r \in current["nat_rules"]})}
    \cup {<<"missing-peer">> \o v :
             v \in CheckMissing(Comments(SeqRange(desired.wireguard_peers)),
                                {r.comment : r \in current["wireguard_peers"]})}
    \cup Drift("firewall", <<"chain", "action", "in-interface", "out-interface">>,
               DesiredIndex(desired.firewall_filter_rules), fw_index)
    \cup Drift("nat", <<"chain", "dst-address", "protocol", "action",
                        "to-addresses", "dst-port", "to-ports">>,
               DesiredIndex(desired.nat_rules), nat_index)
    \cup Drift("route", <<"dst-address", "gateway">>,
               DesiredIndex(desired.routes), route_index)

\* (mutant) verify removes the managed routes the desired state does not have
RouterAfterVerify_Repaired(rt, desired) ==
    [rt EXCEPT !["routes"] =
        {r \in @ : ~StartsWithPrefix(r.comment)
                      \/ ItemOf(r) \in SeqRange(desired.routes)}]

\* verify_configuration only reads the router
RouterAfterVerify(rt, desired) == rt

\* GET /peers/{id}/mikrotik/verify
Verify(peer_id) ==
    /\ peer_id \in PeerIds
    /\ LET desired == DesiredStates[overlay][peer_id]
           current == GetManagedResources(router)
       IN  /\ IF GetPeer(peer_id).type # "mikrotik"
              THEN reply' = [NoReply EXCEPT
                       !.op = "verify", !.peer_id = peer_id, !.status = 200,
                       !.issues = {<<"Peer is not a MikroTik device">>}]
              ELSE \E fw_index \in CurrentIndexes(current["firewall_filter_rules"], TRUE),
                      nat_index \in CurrentIndexes(current["nat_rules"], TRUE),
                      route_index \in CurrentIndexes(current["routes"], FALSE) :
                   LET issues == VerifyIssues(desired, current, fw_index,
                                              nat_index, route_index)
                   IN  reply' = [NoReply EXCEPT
                           !.op = "verify", !.peer_id = peer_id, !.status = 200,
                           !.issues = issues, !.in_sync = (issues = {})]
           /\ router' = RouterAfterVerify(router, desired)
    /\ UNCHANGED <<router0, jobs, task, clear, overlay, store, mikrotik_api_status, inflight,
                   peer_columns, hash_seed, undecryptable>>

\* '"auth" in (result.error_message or "").lower()'
MentionsAuth(error_message) == error_message = "Authentication failed: "

\* POST /peers/{id}/mikrotik/test-connection (DeploymentService.test_connection):
\* the result of the client's test is stored in the peer's mikrotik_api_status
TestConnection(peer_id, conn_result) ==
    /\ peer_id \in PeerIds
    /\ IF GetPeer(peer_id).type # "mikrotik"
       THEN UNCHANGED mikrotik_api_status
       ELSE mikrotik_api_status' =
               [mikrotik_api_status EXCEPT ![peer_id] =
                   IF conn_result.success THEN "connected"
                   ELSE IF MentionsAuth(conn_result.error_message)
                        THEN "auth-failed" ELSE "unreachable"]
    /\ reply' = [NoReply EXCEPT !.op = "test-connection", !.peer_id = peer_id,
                                !.status = 200]
    /\ UNCHANGED <<router, router0, jobs, task, clear, overlay, store, inflight,
                   peer_columns, hash_seed, undecryptable>>

\* a router call of plan, preflight or verify raises: the request is answered
\* 500
InspectApiError(op, peer_id) ==
    /\ peer_id \in PeerIds
    /\ GetPeer(peer_id).type = "mikrotik"
    /\ reply' = [NoReply EXCEPT !.op = op, !.peer_id = peer_id, !.status = 500]
    /\ UNCHANGED <<router, router0, jobs, task, clear, overlay, store, mikrotik_api_status, inflight,
                   peer_columns, hash_seed, undecryptable>>

\* the operator changes the listen-port of the managed interface on the
\* router itself, after an apply of the peer has completed
ExternalEdit(peer_id, listen_port) ==
    /\ peer_id \in PeerIds
    /\ RunningTasks = {}
    /\ \E j \in JobIds : jobs[j].peer_id = peer_id /\ jobs[j].status = "completed"
    /\ \E r \in router["wireguard_interfaces"] :
          /\ StartsWithPrefix(r.comment)
          /\ r.name = InterfaceName(GetPeer(peer_id))
          /\ r.data[1] # listen_port
          /\ router' = [router EXCEPT !["wireguard_interfaces"] =
                           (@ \ {r}) \cup {[r EXCEPT !.data[1] = listen_port]}]
    /\ reply' = NoReply
    /\ UNCHANGED <<router0, jobs, task, clear, overlay, store, mikrotik_api_status, inflight,
                   peer_columns, hash_seed, undecryptable>>

(***************************************************************************)
(* Clear: DeploymentService.clear_managed_configuration, which is          *)
(* MikrotikAPIClient.remove_managed_resources, one action per call.        *)
(***************************************************************************)
\* (mutant) the interface is removed first
ClearOrder_InterfaceFirst ==
    <<"wireguard_interfaces", "nat_rules", "firewall_filter_rules", "routes",
      "ip_addresses", "wireguard_peers">>

\* the order in which remove_managed_resources goes through the families
ClearOrder ==
    <<"nat_rules", "firewall_filter_rules", "routes", "ip_addresses",
      "wireguard_peers", "wireguard_interfaces">>

\* the clear request after a call: deletions left, else the next family,
\* else done
ClearAfterCall(fam, todo) ==
    IF todo # {} THEN [pc |-> "del", fam |-> fam, todo |-> todo]
    ELSE IF fam < Len(ClearOrder) THEN [pc |-> "list", fam |-> fam + 1, todo |-> {}]
    ELSE [pc |-> "done", fam |-> fam, todo |-> {}]

\* POST /peers/{id}/mikrotik/clear: peer found and a MikroTik, client built
ClearBegin(peer_id) ==
    /\ clear.pc = "idle"
    /\ peer_id \in PeerIds
    /\ GetPeer(peer_id).type = "mikrotik"
    /\ clear' = [pc |-> "list", fam |-> 1, todo |-> {}]
    /\ UNCHANGED <<router, router0, jobs, task, overlay, reply, store, mikrotik_api_status, inflight,
                   peer_columns, hash_seed, undecryptable>>

\* for x in await self.get_...(comment_filter=self.COMMENT_PREFIX)
ClearList ==
    /\ clear.pc = "list"
    /\ LET listed == GetManagedResources(router)[ClearOrder[clear.fam]]
       IN  clear' = ClearAfterCall(clear.fam, Ids(listed))
    /\ UNCHANGED <<router, router0, jobs, task, overlay, reply, store, mikrotik_api_status, inflight,
                   peer_columns, hash_seed, undecryptable>>

\* await self.delete_...(x[".id"])
ClearDelete ==
    /\ clear.pc = "del"
    /\ LET family == ClearOrder[clear.fam]
           id == SetMin(clear.todo)
       IN  IF id \in Ids(router[family])
           THEN /\ router' = RouterRemove(router, family, id)
                /\ clear' = ClearAfterCall(clear.fam, clear.todo \ {id})
           ELSE /\ clear' = [clear EXCEPT !.pc = "error"]
                /\ UNCHANGED router
    /\ UNCHANGED <<router0, jobs, task, overlay, reply, store, mikrotik_api_status, inflight,
                   peer_columns, hash_seed, undecryptable>>

\* any call of the clear may raise; the endpoint answers 500
ClearApiError ==
    /\ clear.pc \in {"list", "del"}
    /\ clear' = [clear EXCEPT !.pc = "error"]
    /\ UNCHANGED <<router, router0, jobs, task, overlay, reply, store, mikrotik_api_status, inflight,
                   peer_columns, hash_seed, undecryptable>>

(***************************************************************************)
(* Deleting jobs, peers and the WAN, and what becomes of the worker of a   *)
(* job whose row is gone.                                                  *)
(***************************************************************************)
\* "job.status in [JobStatus.PENDING, JobStatus.RUNNING]" rejects
Deletable(status) == status \notin {"pending", "running"}

\* DELETE /jobs/{id}: the row is found and passes the status test;
\* db.delete(job) and commit
DeleteJob(j) ==
    /\ j \in JobIds
    /\ ~jobs[j].deleted
    /\ Deletable(jobs[j].status)
    /\ jobs' = [jobs EXCEPT ![j].deleted = TRUE]
    /\ reply' = [NoReply EXCEPT !.op = "delete-job", !.job_id = j, !.status = 204]
    /\ UNCHANGED <<router, router0, task, clear, overlay, store,
                   mikrotik_api_status, inflight, peer_columns, hash_seed,
                   undecryptable>>

\* DELETE /jobs/{id} answered 404 (no such row) or 400 (pending or running)
DeleteJobRejected(j) ==
    /\ (j \in JobIds /\ ~jobs[j].deleted) => ~Deletable(jobs[j].status)
    /\ reply' = [NoReply EXCEPT
                    !.op = "delete-job", !.job_id = j,
                    !.status = IF j \in JobIds /\ ~jobs[j].deleted
                               THEN 400 ELSE 404]
    /\ UNCHANGED <<router, router0, jobs, task, clear, overlay, store,
                   mikrotik_api_status, inflight, peer_columns, hash_seed,
                   undecryptable>>

\* DELETE /peers/{id}, up to the start of the best-effort clear: the peer is
\* found; for a MikroTik clear_managed_configuration begins
DeletePeerClear(peer_id) ==
    /\ peer_id \in PeerIds
    /\ peer_id \in DOMAIN mikrotik_api_status
    /\ [op |-> "delete-peer", peer_id |-> peer_id] \notin inflight
    /\ IF GetPeer(peer_id).type = "mikrotik"
       THEN /\ clear.pc = "idle"
            /\ clear' = [pc |-> "list", fam |-> 1, todo |-> {}]
       ELSE UNCHANGED clear
    /\ inflight' = inflight \cup {[op |-> "delete-peer", peer_id |-> peer_id]}
    /\ reply' = NoReply
    /\ UNCHANGED <<router, router0, jobs, task, overlay, store,
                   mikrotik_api_status, peer_columns, hash_seed,
                   undecryptable>>

\* DELETE /peers/{id}, db.delete(peer) and commit once the clear has ended
\* (an exception of the clear is passed over): the cascade
\* "all, delete-orphan" of Peer.deployment_jobs deletes every job row of the
\* peer, whatever its status
DeletePeerCascade(peer_id) ==
    /\ [op |-> "delete-peer", peer_id |-> peer_id] \in inflight
    /\ GetPeer(peer_id).type = "mikrotik" => clear.pc \in {"done", "error"}
    /\ jobs' = [j \in JobIds |->
                   IF jobs[j].peer_id = peer_id
                   THEN [jobs[j] EXCEPT !.deleted = TRUE] ELSE jobs[j]]
    /\ mikrotik_api_status' =
          [p \in DOMAIN mikrotik_api_status \ {peer_id} |-> mikrotik_api_status[p]]
    /\ clear' = [pc |-> "idle", fam |-> 1, todo |-> {}]
    /\ inflight' = inflight \ {[op |-> "delete-peer", peer_id |-> peer_id]}
    /\ reply' = [NoReply EXCEPT !.op = "delete-peer", !.peer_id = peer_id,
                                !.status = 204]
    /\ UNCHANGED <<router, router0, task, overlay, store, peer_columns, hash_seed,
                   undecryptable>>

\* DELETE /wan/{id}: db.delete(wan) and commit; WanNetwork.peers cascades to
\* the peers and through them to their job rows
DeleteWanNetwork ==
    /\ DOMAIN mikrotik_api_status # {}
    /\ jobs' = [j \in JobIds |-> [jobs[j] EXCEPT !.deleted = TRUE]]
    /\ mikrotik_api_status' = [p \in {} |-> "unknown"]
    /\ reply' = [NoReply EXCEPT !.op = "delete-wan", !.status = 204]
    /\ UNCHANGED <<router, router0, task, clear, overlay, store, inflight,
                   peer_columns, hash_seed, undecryptable>>

\* a step of the worker of job j is taken as written unless the row is gone
\* and the step would write it
RowSurvives(j) == j \in JobIds /\ (jobs[j].deleted => jobs' = jobs)

\* the worker of a job whose row is gone reaches a step that writes the row:
\* the router call of the step is made, then the select (NoResultFound) or the
\* commit (the UPDATE matches no row) raises, the handler's own commit raises
\* again and the task ends
ExecStale(j) ==
    /\ j \in JobIds
    /\ jobs[j].deleted
    /\ task[j].pc \notin {"done", "iface_list"}
    /\ LET t == task[j]
           pc == t.pc
           family == IF t.fam \in 1..Len(ApplyOrder) THEN ApplyOrder[t.fam] ELSE ""
           ifaces == router["wireguard_interfaces"]
           listed == Ids({r \in ListForApply(router, family, DesiredInterfaceName(j)) :
                             StartsWithPrefix(r.comment)})
           writes(after) == after.progress # jobs[j].progress_percent
       IN  CASE pc = "iface_write" ->
                  router' =
                     IF t.target # 0
                     THEN IF t.target \in Ids(ifaces)
                          THEN RouterSetInterface(router, t.target, Desired(j).interface)
                          ELSE router
                     ELSE IF \E r \in ifaces : r.name = DesiredInterfaceName(j)
                          THEN router
                          ELSE RouterAdd(router, "wireguard_interfaces",
                                         FreshId(j, 0, 1), Desired(j).interface)
             [] pc = "list" ->
                  /\ writes(AfterCall(j, t, listed, 1))
                  /\ UNCHANGED router
             [] pc = "del" ->
                  LET id == SetMin(t.todo)
                  IN  IF id \in Ids(router[family])
                      THEN /\ writes(AfterCall(j, t, t.todo \ {id}, 1))
                           /\ router' = RouterRemove(router, family, id)
                      ELSE UNCHANGED router
             [] pc = "add" ->
                  /\ writes(AfterCall(j, t, {}, t.idx + 1))
                  /\ router' = RouterAdd(router, family, FreshId(j, t.fam, t.idx),
                                         Desired(j)[family][t.idx])
             [] OTHER -> UNCHANGED router
    /\ task' = [task EXCEPT ![j] = Ended(@)]
    /\ reply' = NoReply
    /\ UNCHANGED <<router0, jobs, clear, overlay, store, mikrotik_api_status,
                   inflight, peer_columns, hash_seed, undecryptable>>

(***************************************************************************)
(* The needs_config_refresh flag of peer_metadata: create_service sets it, *)
(* get_peer_config clears it, update_peer replaces the whole column.       *)
(***************************************************************************)
MetaKeys == {"needs_config_refresh", "route_all_traffic"}

\* what the commit writes to the JSON column after
\*     meta = peer.peer_metadata or {}; <change meta>; peer.peer_metadata = meta
\* The column is a plain JSON column (no MutableDict, no flag_modified).  A
\* non-empty loaded dict is itself meta, so the change is made in place, and
\* the flush, which compares the loaded value with the assigned one, finds
\* them equal and writes nothing; an empty or missing one is replaced by a
\* new dict, which is written.
Flushed(loaded, assigned) == IF loaded = {} THEN assigned ELSE loaded

\* whether create_service marks the peer: type != MIKROTIK or
\* mikrotik_auto_deploy is false
ToMark(peer_id) ==
    \/ GetPeer(peer_id).type # "mikrotik"
    \/ ~peer_columns[peer_id].mikrotik_auto_deploy

\* the MikroTik peers with mikrotik_auto_deploy
AutoDeployPeers ==
    {q \in DOMAIN mikrotik_api_status :
        GetPeer(q).type = "mikrotik" /\ peer_columns[q].mikrotik_auto_deploy}

\* deploy_configuration(p.id) for p in mikrotik_peers
RECURSIVE QueueJobs(_, _)
QueueJobs(rows, peer_ids) ==
    IF peer_ids = {} THEN rows
    ELSE LET q == CHOOSE q \in peer_ids : TRUE
         IN  QueueJobs(Append(rows, NewJob(q)), peer_ids \ {q})

\* POST /services/peer/{peer_id} once the service row is committed: the
\* deploys of the auto-deploy peers if asked for, then the marks of the
\* others and the commit
CreateService(peer_id, auto_deploy) ==
    /\ peer_id \in DOMAIN mikrotik_api_status
    /\ LET queued == IF auto_deploy THEN AutoDeployPeers ELSE {}
       IN  /\ Len(jobs) + Cardinality(queued) <= MaxJobs
           /\ jobs' = QueueJobs(jobs, queued)
           /\ task' = task \o [i \in 1..Cardinality(queued) |-> NewTask]
    /\ peer_columns' =
          [q \in PeerIds |->
              IF q \in DOMAIN mikrotik_api_status /\ ToMark(q)
              THEN [peer_columns[q] EXCEPT
                       !.peer_metadata =
                           Flushed(@, @ \cup {"needs_config_refresh"})]
              ELSE peer_columns[q]]
    /\ reply' = [NoReply EXCEPT !.op = "create-service", !.peer_id = peer_id,
                                !.status = 201]
    /\ UNCHANGED <<router, router0, clear, overlay, store, mikrotik_api_status,
                   inflight, hash_seed, undecryptable>>

\* POST /services/peer/{peer_id} answered 404 (no such peer) or 400 (no
\* address left in the shared range): nothing is stored
CreateServiceRejected(peer_id) ==
    /\ reply' = [NoReply EXCEPT
                    !.op = "create-service", !.peer_id = peer_id,
                    !.status = IF peer_id \in DOMAIN mikrotik_api_status
                               THEN 400 ELSE 404]
    /\ UNCHANGED <<router, router0, jobs, task, clear, overlay, store,
                   mikrotik_api_status, inflight, peer_columns, hash_seed,
                   undecryptable>>

\* GET /peers/{peer_id}/config: generated is whether decrypt_value and the
\* generation went through; only then the flag is popped and the column
\* assigned
GetPeerConfig(peer_id, generated) ==
    /\ peer_id \in DOMAIN mikrotik_api_status
    /\ LET meta == peer_columns[peer_id].peer_metadata
       IN  peer_columns' =
              IF generated /\ "needs_config_refresh" \in meta
              THEN [peer_columns EXCEPT
                       ![peer_id].peer_metadata =
                           Flushed(meta, meta \ {"needs_config_refresh"})]
              ELSE peer_columns
    /\ reply' = [NoReply EXCEPT !.op = "peer-config", !.peer_id = peer_id,
                                !.status = IF generated THEN 200 ELSE 500]
    /\ UNCHANGED <<router, router0, jobs, task, clear, overlay, store,
                   mikrotik_api_status, inflight, hash_seed, undecryptable>>

\* PUT /peers/{peer_id} with peer_metadata and mikrotik_auto_deploy set in the
\* body: setattr(peer, field, value) for each
UpdatePeer(peer_id, peer_in) ==
    /\ peer_id \in DOMAIN mikrotik_api_status
    /\ peer_columns' = [peer_columns EXCEPT ![peer_id] = peer_in]
    /\ reply' = [NoReply EXCEPT !.op = "update-peer", !.peer_id = peer_id,
                                !.status = 200]
    /\ UNCHANGED <<router, router0, jobs, task, clear, overlay, store,
                   mikrotik_api_status, inflight, hash_seed, undecryptable>>

\* the columns a request body can carry
PeerColumns ==
    [peer_metadata : SUBSET MetaKeys, mikrotik_auto_deploy : BOOLEAN]

(***************************************************************************)
(* The configuration generator as a function of the overlay: the WireGuard *)
(* text of a peer and the desired state of a managed peer, with the fields *)
(* that are written as text.                                               *)
(***************************************************************************)
\* overlays the generator may be asked about: services that are inactive, on
\* both protocols or without ports; subnets that are not routed, translated,
\* or listed twice; peers without public key, tunnel_ip or endpoint
GenOverlays ==
    <<OverlayPeers,
      <<[OverlayPeers[1] EXCEPT !.published_services =
             <<[id |-> "s1", is_active |-> TRUE, protocol |-> "both",
                shared_ip |-> "10.0.5.1", shared_port |-> 0,
                local_ip |-> "192.168.1.10", local_port |-> 0],
               [id |-> "s2", is_active |-> FALSE, protocol |-> "udp",
                shared_ip |-> "10.0.5.2", shared_port |-> 53,
                local_ip |-> "192.168.1.11", local_port |-> 53],
               [id |-> "s3", is_active |-> TRUE, protocol |-> "udp",
                shared_ip |-> "10.0.5.3", shared_port |-> 5353,
                local_ip |-> "192.168.1.12", local_port |-> 0]>>],
        [OverlayPeers[2] EXCEPT !.local_subnets =
             <<[cidr |-> "192.168.10.0/24", is_routed |-> TRUE,
                nat_enabled |-> TRUE, nat_translated_cidr |-> "10.99.10.0/24"],
               [cidr |-> "192.168.30.0/24", is_routed |-> FALSE,
                nat_enabled |-> FALSE, nat_translated_cidr |-> ""],
               [cidr |-> "192.168.40.0/24", is_routed |-> TRUE,
                nat_enabled |-> TRUE, nat_translated_cidr |-> ""]>>],
        [id |-> "p3", type |-> "client", public_key |-> "",
         tunnel_ip |-> "10.0.0.3", listen_port |-> "51820",
         mikrotik_interface_name |-> "", endpoint |-> "",
         local_subnets |-> <<>>, published_services |-> <<>>]>>,
      <<[OverlayPeers[1] EXCEPT !.endpoint = "198.51.100.7:13231"],
        [OverlayPeers[2] EXCEPT
            !.endpoint = "", !.tunnel_ip = "",
            !.local_subnets =
               <<[cidr |-> "192.168.10.0/24", is_routed |-> TRUE,
                  nat_enabled |-> FALSE, nat_translated_cidr |-> ""],
                 [cidr |-> "192.168.10.0/24", is_routed |-> TRUE,
                  nat_enabled |-> FALSE, nat_translated_cidr |-> ""]>>,
            !.published_services =
               <<[id |-> "s4", is_active |-> TRUE, protocol |-> "tcp",
                  shared_ip |-> "10.0.5.4", shared_port |-> 443,
                  local_ip |-> "192.168.10.5", local_port |-> 8443]>>]>>>>

\* the overlay the generator reads
GenPeers == GenOverlays[overlay]

\* the hash seeds a server process may start with (PYTHONHASHSEED is random)
HashSeeds == {1, 2}

\* the sequences that list every element of S once
Orderings(S) ==
    {q \in [1..Cardinality(S) -> S] :
        \A i, k \in 1..Cardinality(S) : q[i] = q[k] => i = k}

\* iteration over set(allowed_ips): an order that is fixed by the contents
\* and the seed of the process, and differs from seed to seed
Iterate(S, seed) ==
    LET q == CHOOSE x \in Orderings(S) : TRUE
    IN  IF seed = 1 THEN q ELSE [i \in 1..Len(q) |-> q[Len(q) + 1 - i]]

\* _should_route_all_traffic(peer)
ShouldRouteAllTraffic(peer_id) ==
    "route_all_traffic" \in peer_columns[peer_id].peer_metadata

\* (mutant) the default route is listed for every peer when route_all is set
WireguardAllowedIps_NoEndpointTest(route_all, other_peer) ==
    AllowedAddress(other_peer)
    \cup (IF route_all THEN {<<"0.0.0.0/0", "">>} ELSE {})

\* generate_wireguard_config: set(allowed_ips) of the block of other_peer
WireguardAllowedIps(route_all, other_peer) ==
    AllowedAddress(other_peer)
    \cup (IF route_all /\ other_peer.endpoint # ""
          THEN {<<"0.0.0.0/0", "">>} ELSE {})

\* generate_wireguard_config: the [Peer] blocks, AllowedIPs as listed in the
\* text (', '.join(set(allowed_ips)))
GenerateWireguardConfig(all_peers, peer_id, route_all, seed) ==
    LET others == SelectSeq(all_peers,
                      LAMBDA o : o.id # peer_id /\ o.public_key # "")
    IN  [i \in 1..Len(others) |->
            [peer_id |-> others[i].id,
             public_key |-> others[i].public_key,
             endpoint |-> others[i].endpoint,
             allowed_ips |->
                 Iterate(WireguardAllowedIps(route_all, others[i]), seed)]]

\* get_mikrotik_desired_state with "allowed-address" as the text that is
\* sent to the router: ",".join(set(allowed_ips))
DesiredStateText(all_peers, peer_id, seed) ==
    LET state == GetMikrotikDesiredState(all_peers, peer_id)
    IN  [state EXCEPT
            !.wireguard_peers =
                [i \in 1..Len(@) |->
                    [@[i] EXCEPT !.data[2] = Iterate(@, seed)]]]

\* GET /peers/{peer_id}/config?config_type=wireguard
GenerateConfig(peer_id) ==
    /\ reply' = [NoReply EXCEPT
                    !.op = "wireguard-config", !.peer_id = peer_id,
                    !.status = 200,
                    !.body = GenerateWireguardConfig(
                                 GenPeers, peer_id,
                                 ShouldRouteAllTraffic(peer_id), hash_seed)]
    /\ UNCHANGED <<router, router0, jobs, task, clear, overlay, store,
                   mikrotik_api_status, inflight, peer_columns, hash_seed,
                   undecryptable>>

\* config_gen.get_mikrotik_desired_state(peer_id, private_key), as plan,
\* preflight, verify and the apply call it
ComputeDesiredState(peer_id) ==
    /\ PeerOf(GenPeers, peer_id).type = "mikrotik"
    /\ reply' = [NoReply EXCEPT
                    !.op = "desired-state", !.peer_id = peer_id,
                    !.status = 200,
                    !.body = DesiredStateText(GenPeers, peer_id, hash_seed)]
    /\ UNCHANGED <<router, router0, jobs, task, clear, overlay, store,
                   mikrotik_api_status, inflight, peer_columns, hash_seed,
                   undecryptable>>

\* the server process is started again; the store is what it was
Restart(seed) ==
    /\ seed \in HashSeeds
    /\ hash_seed' = seed
    /\ UNCHANGED <<router, router0, jobs, task, clear, overlay, reply, store,
                   mikrotik_api_status, inflight, peer_columns, undecryptable>>

(***************************************************************************)
(* Stored secrets that cannot be decrypted (the encryption key or salt was *)
(* changed, or the column was damaged).                                    *)
(***************************************************************************)
\* mikrotik_password_encrypted or mikrotik_api_token_encrypted, and
\* private_key_encrypted
Secrets == {"credentials", "private_key"}

\* _get_mikrotik_client: except Exception -> ValueError with the guidance
CannotDecrypt ==
    [type |-> "ValueError",
     message |-> "Cannot decrypt stored password. Please update the MikroTik credentials.",
     detail |-> ""]

\* decrypt_value on its own: cryptography's InvalidToken, whose str() is empty
InvalidToken == [type |-> "InvalidToken", message |-> "", detail |-> ""]

\* the exception the apply meets: _execute_deployment calls decrypt_value
\* itself for all three secrets
ApplyDecryptError(secret) == InvalidToken

\* the exception plan, preflight, verify and clear meet: the client is built
\* by _get_mikrotik_client, the private key is decrypted by decrypt_value
RequestDecryptError(secret) ==
    IF secret = "credentials" THEN CannotDecrypt ELSE InvalidToken

\* the secrets a step of the apply decrypts
SecretAt(pc) ==
    CASE pc = "conn" -> {"credentials"}
      [] pc = "desired" -> {"private_key"}
      [] OTHER -> {}

\* the step of job j decrypts nothing that fails
Decrypts(j) ==
    /\ j \in JobIds
    /\ \A secret \in SecretAt(task[j].pc) :
          <<jobs[j].peer_id, secret>> \notin undecryptable

\* _execute_deployment: decrypt_value raises, "except Exception" ends the job
ExecDecryptError(j) ==
    /\ j \in JobIds
    /\ \E secret \in SecretAt(task[j].pc) :
          /\ <<jobs[j].peer_id, secret>> \in undecryptable
          /\ Failed(j, ApplyDecryptError(secret))
    /\ reply' = NoReply
    /\ UNCHANGED <<router, router0, clear, overlay, store, mikrotik_api_status,
                   inflight, peer_columns, hash_seed, undecryptable>>

\* the first secret a request of kind op fails on, if any: the client is
\* built first (clear decrypts nothing else)
FirstUndecryptable(op, peer_id) ==
    IF <<peer_id, "credentials">> \in undecryptable THEN {"credentials"}
    ELSE IF op # "clear" /\ <<peer_id, "private_key">> \in undecryptable
         THEN {"private_key"}
         ELSE {}

\* the requests decrypt before any router call.  deploy without approval
\* (plan), preflight and verify have no handler around the service call: the
\* exception leaves the endpoint and the server answers its generic 500.
\* clear catches Exception and answers 500 with str(e) as detail.
RequestDecryptFails(op, peer_id) ==
    /\ peer_id \in PeerIds
    /\ GetPeer(peer_id).type = "mikrotik"
    /\ op = "clear" => clear.pc = "idle"
    /\ \E secret \in FirstUndecryptable(op, peer_id) :
          LET e == RequestDecryptError(secret)
          IN  reply' = [NoReply EXCEPT
                          !.op = op, !.peer_id = peer_id, !.status = 500,
                          !.issues =
                              IF op = "clear"
                              THEN {<<"detail">> \o ErrorMessage(e)}
                              ELSE {<<"unhandled", e.type>>}]
    /\ UNCHANGED <<router, router0, jobs, task, clear, overlay, store,
                   mikrotik_api_status, inflight, peer_columns, hash_seed,
                   undecryptable>>

\* PUT /peers/{peer_id} with mikrotik_password or mikrotik_api_token:
\* encrypt_value stores a value that decrypts; POST .../regenerate-keys does
\* so for the private key
ReenterSecret(peer_id, secret) ==
    /\ <<peer_id, secret>> \in undecryptable
    /\ undecryptable' = undecryptable \ {<<peer_id, secret>>}
    /\ reply' = [NoReply EXCEPT !.op = "update-peer", !.peer_id = peer_id,
                                !.status = 200]
    /\ UNCHANGED <<router, router0, jobs, task, clear, overlay, store,
                   mikrotik_api_status, inflight, peer_columns, hash_seed>>

(***************************************************************************)
(* The overlay store of one WAN: its two ranges, the tunnel_ip of its      *)
(* peers and the shared_ip of their services, and the requests being       *)
(* served.  Every request has its own database session: what it read stays *)
(* in the request, what it writes reaches the tables at its commit.        *)
(* An address is the integer its dotted-quad text denotes (str() of an     *)
(* IPv4Address is canonical, so equal texts are equal addresses).          *)
(***************************************************************************)
Ip(a, b, c, d) == ((a * 256 + b) * 256 + c) * 256 + d

Cidr(address, prefixlen) == [address |-> address, prefixlen |-> prefixlen]

RECURSIVE Pow2(_)
Pow2(n) == IF n = 0 THEN 1 ELSE 2 * Pow2(n - 1)

\* ipaddress.ip_network(cidr, strict=False): the host bits are masked out
NetworkAddress(cidr) ==
    cidr.address - (cidr.address % Pow2(32 - cidr.prefixlen))

BroadcastAddress(cidr) == NetworkAddress(cidr) + Pow2(32 - cidr.prefixlen) - 1

\* (mutant) the network address is handed out as a host
GetAvailableHosts_WithNetworkAddress(cidr) ==
    [i \in 1..(BroadcastAddress(cidr) - NetworkAddress(cidr)) |->
        NetworkAddress(cidr) + i - 1]

\* get_available_hosts: list(network.hosts()), ascending; a /31 has both of
\* its addresses as hosts and a /32 its single address
GetAvailableHosts(cidr) ==
    IF cidr.prefixlen >= 31
    THEN [i \in 1..(BroadcastAddress(cidr) - NetworkAddress(cidr) + 1) |->
             NetworkAddress(cidr) + i - 1]
    ELSE [i \in 1..(BroadcastAddress(cidr) - NetworkAddress(cidr) - 1) |->
             NetworkAddress(cidr) + i]

\* the value None of an Optional[str]
None == -1

\* "for ip in available: if ip not in allocated: return ip" ... "return None"
FirstFree(available, allocated) ==
    LET free == {i \in 1..Len(available) : available[i] \notin allocated}
    IN  IF free = {} THEN None ELSE available[SetMin(free)]

\* get_allocated_tunnel_ips: the tunnel_ip of every peer of the WAN
GetAllocatedTunnelIps(st) == {p.tunnel_ip : p \in st.peers}

\* get_allocated_service_ips: PublishedService joined with Peer
GetAllocatedServiceIps(st) ==
    {s.shared_ip : s \in {x \in st.services : \E p \in st.peers : p.id = x.peer_id}}

\* allocate_tunnel_ip(wan_id, tunnel_ip_range)
AllocateTunnelIp(st, tunnel_ip_range) ==
    FirstFree(GetAvailableHosts(tunnel_ip_range), GetAllocatedTunnelIps(st))

\* allocate_shared_service_ip(wan_id, shared_services_range)
AllocateSharedServiceIp(st, shared_services_range) ==
    FirstFree(GetAvailableHosts(shared_services_range), GetAllocatedServiceIps(st))

\* requests served at the same time
MaxInFlight == 2

\* requests ever started
MaxRequests == 4

\* the ranges a WAN is created with or updated to
TunnelRanges == {Cidr(Ip(10, 0, 0, 0), 29), Cidr(Ip(10, 0, 0, 5), 30),
                 Cidr(Ip(10, 0, 1, 0), 31)}

SharedRanges == {Cidr(Ip(10, 0, 5, 0), 30), Cidr(Ip(10, 0, 6, 0), 32)}

NoAnswer == [op |-> "none", status |-> 0, ip |-> None]

\* a request enters: its id is the number of requests started so far
Opened(st, op, pc, arg, range) ==
    [st EXCEPT !.started = @ + 1,
               !.open = @ \cup {[id |-> st.started + 1, op |-> op, pc |-> pc,
                                 arg |-> arg, range |-> range, ip |-> None]}]

\* a request leaves with its answer
Closed(st, r, status) ==
    [st EXCEPT !.open = @ \ {r},
               !.answer = [op |-> r.op, status |-> status, ip |-> r.ip]]

MayOpen == store.started < MaxRequests /\ Cardinality(store.open) < MaxInFlight

\* the ids uuid4 gives to new rows: distinct from each other and from the
\* rows of the initial store
NewPeerId(r) == 100 + r.id

NewServiceId(r) == 200 + r.id

\* the local_subnets of the request bodies of create_peer (body 0 has none):
\* a subnet of its own, one that contains the tunnel range, one inside the
\* shared services range, one inside the subnet of body 1, and a pair of
\* which the second contains the shared services range
SubnetBodies ==
    <<{Cidr(Ip(10, 1, 10, 0), 24)},
      {Cidr(Ip(10, 0, 0, 0), 24)},
      {Cidr(Ip(10, 0, 5, 1), 32)},
      {Cidr(Ip(10, 1, 10, 128), 25)},
      {Cidr(Ip(10, 1, 20, 0), 24), Cidr(Ip(10, 0, 4, 0), 22)}>>

LocalSubnets(k) == IF k = 0 THEN {} ELSE SubnetBodies[k]

\* ipaddress: net1.overlaps(net2)
Overlaps(net1, net2) ==
    /\ NetworkAddress(net1) <= BroadcastAddress(net2)
    /\ NetworkAddress(net2) <= BroadcastAddress(net1)

\* (mutant) the shared services range is not looked at
StoreConflicts_TunnelOnly(st, subnets) ==
    {[subnet |-> sn, conflict_type |-> "tunnel_ip_overlap",
      severity |-> "critical",
      suggested_resolutions |-> {"dont_route", "use_nat", "change_subnet"}] :
        sn \in {x \in subnets : Overlaps(x, st.tunnel_ip_range)}}

\* detect_conflicts(wan_id, "", subnets) on the store
StoreConflicts(st, subnets) ==
    {[subnet |-> sn, conflict_type |-> "tunnel_ip_overlap",
      severity |-> "critical",
      suggested_resolutions |-> {"dont_route", "use_nat", "change_subnet"}] :
        sn \in {x \in subnets : Overlaps(x, st.tunnel_ip_range)}}
    \cup
    {[subnet |-> sn, conflict_type |-> "shared_services_overlap",
      severity |-> "critical",
      suggested_resolutions |-> {"dont_route", "use_nat", "change_subnet"}] :
        sn \in {x \in subnets : Overlaps(x, st.shared_services_range)}}
    \cup
    {[subnet |-> sn, conflict_type |-> "peer_subnet_overlap",
      severity |-> "warning",
      suggested_resolutions |->
          {"use_nat", "selective_routing", "change_subnet"}] :
        sn \in {x \in subnets : \E l \in st.subnets : Overlaps(x, l.cidr)}}

\* create_peer with the local_subnets of body k: the WAN is selected
CreatePeerSubmit(k) ==
    /\ MayOpen
    /\ k \in 1..Len(SubnetBodies)
    /\ store' = Opened(store, "create_peer", "check", k, store.tunnel_ip_range)
    /\ UNCHANGED <<router, router0, jobs, task, clear, overlay, reply,
                   mikrotik_api_status, inflight, peer_columns, hash_seed,
                   undecryptable>>

\* create_peer: detect_conflicts selects the WAN with its peers and their
\* subnets; critical conflicts end the request with 400, else it goes on to
\* the allocation
CreatePeerCheck(r) ==
    /\ r \in store.open /\ r.op = "create_peer" /\ r.pc = "check"
    /\ LET conflicts == StoreConflicts(store, LocalSubnets(r.arg))
           critical_conflicts == {c \in conflicts : c.severity = "critical"}
       IN  store' =
             IF critical_conflicts # {} THEN Closed(store, r, 400)
             ELSE [store EXCEPT !.open =
                      (@ \ {r}) \cup {[r EXCEPT !.pc = "allocate"]}]
    /\ UNCHANGED <<router, router0, jobs, task, clear, overlay, reply,
                   mikrotik_api_status, inflight, peer_columns, hash_seed,
                   undecryptable>>

\* create_peer without local_subnets: the WAN is selected (its
\* tunnel_ip_range is read)
CreatePeerBegin ==
    /\ MayOpen
    /\ store' = Opened(store, "create_peer", "allocate", 0, store.tunnel_ip_range)
    /\ UNCHANGED <<router, router0, jobs, task, clear, overlay, reply, mikrotik_api_status, inflight,
                   peer_columns, hash_seed, undecryptable>>

\* ip_service.allocate_tunnel_ip(...); None: 400 "No available tunnel IPs"
CreatePeerAllocate(r) ==
    /\ r \in store.open /\ r.op = "create_peer" /\ r.pc = "allocate"
    /\ LET tunnel_ip == AllocateTunnelIp(store, r.range)
       IN  store' =
             IF tunnel_ip = None THEN Closed(store, r, 400)
             ELSE [store EXCEPT !.open =
                      (@ \ {r}) \cup {[r EXCEPT !.pc = "commit", !.ip = tunnel_ip]}]
    /\ UNCHANGED <<router, router0, jobs, task, clear, overlay, reply, mikrotik_api_status, inflight,
                   peer_columns, hash_seed, undecryptable>>

\* db.add(peer); await db.commit(): the table has no uniqueness constraint on
\* tunnel_ip, the row is inserted whatever the other rows hold
CreatePeerCommit(r) ==
    /\ r \in store.open /\ r.op = "create_peer" /\ r.pc = "commit"
    /\ store' = [Closed(store, r, 201) EXCEPT
                    !.peers = @ \cup {[id |-> NewPeerId(r), tunnel_ip |-> r.ip]},
                    !.subnets = @ \cup {[peer_id |-> NewPeerId(r), cidr |-> c] :
                                            c \in LocalSubnets(r.arg)}]
    /\ UNCHANGED <<router, router0, jobs, task, clear, overlay, reply, mikrotik_api_status, inflight,
                   peer_columns, hash_seed, undecryptable>>

\* the cidr query parameters of add_subnet: a subnet of its own, one that
\* contains the tunnel range and one inside the shared services range
SubnetCidrs == SubnetBodies[1] \cup SubnetBodies[2] \cup SubnetBodies[3]

\* add_subnet: the peer is selected (404 without it), detect_conflicts runs
\* for the peer's id, so the peer's own subnets are skipped; the row is added
\* and committed whatever the conflicts are, and the answer lists them
AddSubnet(peer_id, cidr) ==
    /\ store.started < MaxRequests
    /\ \E p \in store.peers : p.id = peer_id
    /\ LET others == [store EXCEPT
                         !.subnets = {l \in @ : l.peer_id # peer_id}]
           conflicts == StoreConflicts(others, {cidr})
       IN  /\ store' = [store EXCEPT
                           !.started = @ + 1,
                           !.subnets = @ \cup {[peer_id |-> peer_id,
                                                cidr |-> cidr]},
                           !.answer = [op |-> "add_subnet", status |-> 200,
                                       ip |-> None]]
           /\ reply' = [NoReply EXCEPT
                           !.op = "add-subnet", !.status = 200,
                           !.issues = conflicts, !.body = <<cidr>>]
    /\ UNCHANGED <<router, router0, jobs, task, clear, overlay,
                   mikrotik_api_status, inflight, peer_columns, hash_seed,
                   undecryptable>>

\* create_service: the peer is selected with its WAN (404 without the peer)
CreateServiceBegin(peer_id) ==
    /\ MayOpen
    /\ \E p \in store.peers : p.id = peer_id
    /\ store' = Opened(store, "create_service", "allocate", peer_id,
                       store.shared_services_range)
    /\ UNCHANGED <<router, router0, jobs, task, clear, overlay, reply, mikrotik_api_status, inflight,
                   peer_columns, hash_seed, undecryptable>>

\* ip_service.allocate_shared_service_ip(...); None: 400
CreateServiceAllocate(r) ==
    /\ r \in store.open /\ r.op = "create_service" /\ r.pc = "allocate"
    /\ LET shared_ip == AllocateSharedServiceIp(store, r.range)
       IN  store' =
             IF shared_ip = None THEN Closed(store, r, 400)
             ELSE [store EXCEPT !.open =
                      (@ \ {r}) \cup {[r EXCEPT !.pc = "commit", !.ip = shared_ip]}]
    /\ UNCHANGED <<router, router0, jobs, task, clear, overlay, reply, mikrotik_api_status, inflight,
                   peer_columns, hash_seed, undecryptable>>

\* db.add(service); await db.commit(): no uniqueness constraint on shared_ip
CreateServiceCommit(r) ==
    /\ r \in store.open /\ r.op = "create_service" /\ r.pc = "commit"
    /\ store' = [Closed(store, r, 201) EXCEPT
                    !.services = @ \cup {[id |-> NewServiceId(r), peer_id |-> r.arg,
                                          shared_ip |-> r.ip]}]
    /\ UNCHANGED <<router, router0, jobs, task, clear, overlay, reply, mikrotik_api_status, inflight,
                   peer_columns, hash_seed, undecryptable>>

\* delete_peer: the peer is selected (404 without it)
DeletePeerBegin(peer_id) ==
    /\ MayOpen
    /\ \E p \in store.peers : p.id = peer_id
    /\ store' = Opened(store, "delete_peer", "delete", peer_id, store.tunnel_ip_range)
    /\ UNCHANGED <<router, router0, jobs, task, clear, overlay, reply, mikrotik_api_status, inflight,
                   peer_columns, hash_seed, undecryptable>>

\* await db.delete(peer); await db.commit(): the peer's services go with it
\* (cascade="all, delete-orphan")
DeletePeerCommit(r) ==
    /\ r \in store.open /\ r.op = "delete_peer" /\ r.pc = "delete"
    /\ store' = [Closed(store, r, 204) EXCEPT
                    !.peers = {p \in @ : p.id # r.arg},
                    !.services = {s \in @ : s.peer_id # r.arg},
                    !.subnets = {l \in @ : l.peer_id # r.arg}]
    /\ UNCHANGED <<router, router0, jobs, task, clear, overlay, reply, mikrotik_api_status, inflight,
                   peer_columns, hash_seed, undecryptable>>

\* delete_service: the service is selected (404 without it)
DeleteServiceBegin(service_id) ==
    /\ MayOpen
    /\ \E s \in store.services : s.id = service_id
    /\ store' = Opened(store, "delete_service", "delete", service_id,
                       store.shared_services_range)
    /\ UNCHANGED <<router, router0, jobs, task, clear, overlay, reply, mikrotik_api_status, inflight,
                   peer_columns, hash_seed, undecryptable>>

\* await db.delete(service); await db.commit()
DeleteServiceCommit(r) ==
    /\ r \in store.open /\ r.op = "delete_service" /\ r.pc = "delete"
    /\ store' = [Closed(store, r, 204) EXCEPT
                    !.services = {s \in @ : s.id # r.arg}]
    /\ UNCHANGED <<router, router0, jobs, task, clear, overlay, reply, mikrotik_api_status, inflight,
                   peer_columns, hash_seed, undecryptable>>

\* WanUpdate.validate_cidr accepts any well-formed CIDR, whatever the peers
\* and services hold
\* update_wan_network: "for field, value in update_data.items(): setattr(...)"
UpdateWanNetwork(tunnel_ip_range, shared_services_range) ==
    /\ store.started < MaxRequests
    /\ store' = [store EXCEPT !.started = @ + 1,
                              !.tunnel_ip_range = tunnel_ip_range,
                              !.shared_services_range = shared_services_range,
                              !.answer = [op |-> "update_wan", status |-> 200,
                                          ip |-> None]]
    /\ UNCHANGED <<router, router0, jobs, task, clear, overlay, reply, mikrotik_api_status, inflight,
                   peer_columns, hash_seed, undecryptable>>

(***************************************************************************)
(* Initial router configurations.                                          *)
(***************************************************************************)
EmptyRouter == [f \in Families |-> {}]

\* a firewall rule of the operator, without comment
ForeignFirewallRule ==
    Resource(1, Item("", "", <<>>, <<"input", "drop", "ether1", "">>))

\* a managed route that the overlay no longer asks for
StaleManagedRoute ==
    Resource(2, Item("", "", ManagedComment("route-to-", "p9"),
                     <<"172.20.0.0/24", "wg-wan-overlay">>))

\* an interface of the operator that has the name the peer would use
ForeignInterface ==
    Resource(1, Item("wg-wan-overlay", "", <<>>, <<"13231", "foreign-key">>))

\* what an earlier apply left under another interface name
OldInterface ==
    Resource(1, Item("wg-old", "", ManagedComment("peer-", "p1"),
                     <<"51820", "private-key">>))

OldPeer ==
    Resource(2, Item("", "wg-old", ManagedComment("peer-", "p2"),
                     <<"K2", {<<"10.0.0.2", "/32">>}, "">>))

OldAddress ==
    Resource(3, Item("", "wg-old", ManagedComment("peer-", "p1"),
                     <<"10.0.0.1", "/24">>))

\* a NAT rule of the operator whose comment mentions the prefix text
LegacyNatRule ==
    Resource(4, Item("", "", <<"legacy ", COMMENT_PREFIX, "x">>,
                     <<"dstnat", "198.51.100.7", "tcp", "dst-nat",
                       "192.168.1.20", "443", "443">>))

ManagedFirewallRule ==
    Resource(5, Item("", "", ManagedComment("allow-input-wan-", "p1"),
                     <<"input", "accept", "wg-wan-overlay", "">>))

ManagedNatRule ==
    Resource(6, Item("", "", ManagedComment("service-", "s0"),
                     <<"dstnat", "10.0.5.9", "udp", "dst-nat",
                       "192.168.1.30", "53", "53">>))

\* the routers an apply starts from
ApplySeeds ==
    {EmptyRouter,
     [EmptyRouter EXCEPT !["firewall_filter_rules"] = {ForeignFirewallRule},
                         !["routes"] = {StaleManagedRoute}],
     [wireguard_interfaces |-> {ForeignInterface, Resource(7, ItemOf(OldInterface))},
      wireguard_peers |-> {OldPeer},
      ip_addresses |-> {OldAddress},
      routes |-> {StaleManagedRoute},
      firewall_filter_rules |-> {ForeignFirewallRule},
      nat_rules |-> {LegacyNatRule}]}

\* the routers a clear starts from: any mix of foreign and managed entries
ClearSeeds ==
    {[wireguard_interfaces |-> a, wireguard_peers |-> b, ip_addresses |-> c,
      routes |-> d, firewall_filter_rules |-> e, nat_rules |-> f] :
        a \in SUBSET {ForeignInterface, Resource(7, ItemOf(OldInterface))},
        b \in SUBSET {OldPeer},
        c \in SUBSET {OldAddress},
        d \in SUBSET {StaleManagedRoute},
        e \in SUBSET {ForeignFirewallRule, ManagedFirewallRule},
        f \in SUBSET {LegacyNatRule, ManagedNatRule}}

\* a WAN as create_wan_network leaves it: two ranges, no peers
EmptyStore(tunnel_ip_range, shared_services_range) ==
    [tunnel_ip_range |-> tunnel_ip_range,
     shared_services_range |-> shared_services_range,
     peers |-> {}, services |-> {}, subnets |-> {}, open |-> {},
     started |-> 0, answer |-> NoAnswer]

\* a WAN on 10.0.0.0/29 after five peers and one service were created in it
FiveOfSix ==
    [EmptyStore(Cidr(Ip(10, 0, 0, 0), 29), Cidr(Ip(10, 0, 5, 0), 30)) EXCEPT
        !.peers = {[id |-> i, tunnel_ip |-> Ip(10, 0, 0, i)] : i \in 1..5},
        !.services = {[id |-> 1, peer_id |-> 1, shared_ip |-> Ip(10, 0, 5, 1)]}]

\* the stores the requests start from
StoreSeeds ==
    {EmptyStore(Cidr(Ip(10, 0, 0, 0), 29), Cidr(Ip(10, 0, 5, 0), 30)),
     EmptyStore(Cidr(Ip(10, 0, 0, 5), 30), Cidr(Ip(10, 0, 6, 0), 32)),
     FiveOfSix}

ConnResults ==
    {[success |-> TRUE, error_message |-> ""],
     [success |-> FALSE, error_message |-> "Connection refused: "],
     [success |-> FALSE, error_message |-> "Authentication failed: "]}

(***************************************************************************)
(* The deployment engine: deploy, retry, cancel and the background tasks.  *)
(***************************************************************************)
Init ==
    /\ router \in ApplySeeds
    /\ router0 = router
    /\ jobs = <<>>
    /\ task = <<>>
    /\ clear = [pc |-> "idle", fam |-> 1, todo |-> {}]
    /\ overlay = 1
    /\ reply = NoReply
    /\ store = EmptyStore(Cidr(Ip(10, 0, 0, 0), 29), Cidr(Ip(10, 0, 5, 0), 30))
    /\ mikrotik_api_status = NoApiStatus
    /\ inflight = {}
    /\ peer_columns = NoColumns
    /\ hash_seed = 1
    /\ undecryptable = {}

Next ==
    \/ \E p \in PeerIds : DeployToMikrotik(p, TRUE)
    \/ \E j \in 1..MaxJobs : RetryJob(j)
    \/ \E j \in 1..MaxJobs : CancelJob(j)
    \/ \E j \in 1..MaxJobs : ExecStart(j)
    \/ \E j \in 1..MaxJobs, c \in ConnResults : ExecTestConnection(j, c)
    \/ \E j \in 1..MaxJobs : ExecDesiredState(j)
    \/ \E j \in 1..MaxJobs : ExecBackup(j)
    \/ \E j \in 1..MaxJobs : ExecListInterfaces(j)
    \/ \E j \in 1..MaxJobs : ExecWriteInterface(j)
    \/ \E j \in 1..MaxJobs : ExecList(j)
    \/ \E j \in 1..MaxJobs : ExecDelete(j)
    \/ \E j \in 1..MaxJobs : ExecCreate(j)
    \/ \E j \in 1..MaxJobs, running \in BOOLEAN : ExecVerify(j, running)
    \/ \E j \in 1..MaxJobs, e \in ApiErrors : ExecApiError(j, e)
    \/ \E j \in 1..MaxJobs, e \in Exceptions : ExecException(j, e)

Spec == Init /\ [][Next]_vars

(***************************************************************************)
(* Applies, and the requests that inspect the router between their steps:  *)
(* deploy without approval (the plan), preflight and verify; the operator  *)
(* may edit the managed interface after an apply.                          *)
(***************************************************************************)
InspectInit ==
    /\ router \in ApplySeeds
    /\ router0 = router
    /\ jobs = <<>>
    /\ task = <<>>
    /\ clear = [pc |-> "idle", fam |-> 1, todo |-> {}]
    /\ overlay \in 1..Len(Overlays)
    /\ reply = NoReply
    /\ store = EmptyStore(Cidr(Ip(10, 0, 0, 0), 29), Cidr(Ip(10, 0, 5, 0), 30))
    /\ mikrotik_api_status = NoApiStatus
    /\ inflight = {}
    /\ peer_columns = NoColumns
    /\ hash_seed = 1
    /\ undecryptable = {}

InspectNext ==
    \/ \E p \in PeerIds, approve \in BOOLEAN : DeployToMikrotik(p, approve)
    \/ \E p \in PeerIds : Preflight(p)
    \/ \E p \in PeerIds : Verify(p)
    \/ \E p \in PeerIds, op \in {"deploy", "preflight", "verify"} :
          InspectApiError(op, p)
    \/ \E p \in PeerIds : ExternalEdit(p, "13232")
    \/ \E j \in 1..MaxJobs : ExecStart(j)
    \/ \E j \in 1..MaxJobs, c \in ConnResults : ExecTestConnection(j, c)
    \/ \E j \in 1..MaxJobs : ExecDesiredState(j)
    \/ \E j \in 1..MaxJobs : ExecBackup(j)
    \/ \E j \in 1..MaxJobs : ExecListInterfaces(j)
    \/ \E j \in 1..MaxJobs : ExecWriteInterface(j)
    \/ \E j \in 1..MaxJobs : ExecList(j)
    \/ \E j \in 1..MaxJobs : ExecDelete(j)
    \/ \E j \in 1..MaxJobs : ExecCreate(j)
    \/ \E j \in 1..MaxJobs, running \in BOOLEAN : ExecVerify(j, running)

InspectSpec == InspectInit /\ [][InspectNext]_vars

(***************************************************************************)
(* Applies that succeed or fail on the router's API, and the connection    *)
(* test request: the writers of Peer.mikrotik_api_status.                  *)
(***************************************************************************)
StatusNext ==
    \/ \E p \in PeerIds : DeployToMikrotik(p, TRUE)
    \/ \E p \in PeerIds, c \in ConnResults : TestConnection(p, c)
    \/ \E j \in 1..MaxJobs : ExecStart(j)
    \/ \E j \in 1..MaxJobs, c \in ConnResults : ExecTestConnection(j, c)
    \/ \E j \in 1..MaxJobs : ExecDesiredState(j)
    \/ \E j \in 1..MaxJobs : ExecBackup(j)
    \/ \E j \in 1..MaxJobs : ExecListInterfaces(j)
    \/ \E j \in 1..MaxJobs : ExecWriteInterface(j)
    \/ \E j \in 1..MaxJobs : ExecList(j)
    \/ \E j \in 1..MaxJobs : ExecDelete(j)
    \/ \E j \in 1..MaxJobs : ExecCreate(j)
    \/ \E j \in 1..MaxJobs, running \in BOOLEAN : ExecVerify(j, running)
    \/ \E j \in 1..MaxJobs, e \in ApiErrors : ExecApiError(j, e)

StatusSpec == Init /\ [][StatusNext]_vars

(***************************************************************************)
(* The job requests (cancel and retry, accepted or rejected) next to the   *)
(* applies they act on, on a router that starts empty.                     *)
(***************************************************************************)
JobInit ==
    /\ router = EmptyRouter
    /\ router0 = router
    /\ jobs = <<>>
    /\ task = <<>>
    /\ clear = [pc |-> "idle", fam |-> 1, todo |-> {}]
    /\ overlay = 1
    /\ reply = NoReply
    /\ store = EmptyStore(Cidr(Ip(10, 0, 0, 0), 29), Cidr(Ip(10, 0, 5, 0), 30))
    /\ mikrotik_api_status = NoApiStatus
    /\ inflight = {}
    /\ peer_columns = NoColumns
    /\ hash_seed = 1
    /\ undecryptable = {}

JobNext ==
    \/ \E p \in PeerIds : DeployToMikrotik(p, TRUE)
    \/ \E j \in 1..MaxJobs : RetryJob(j)
    \/ \E j \in 1..MaxJobs : RetryJobRejected(j)
    \/ \E j \in 1..MaxJobs : CancelJobSelect(j)
    \/ \E j \in 1..MaxJobs : CancelJobCommit(j)
    \/ \E j \in 1..MaxJobs : CancelJobRejected(j)
    \/ \E j \in 1..MaxJobs : ExecStart(j)
    \/ \E j \in 1..MaxJobs, c \in ConnResults : ExecTestConnection(j, c)
    \/ \E j \in 1..MaxJobs : ExecDesiredState(j)
    \/ \E j \in 1..MaxJobs : ExecBackup(j)
    \/ \E j \in 1..MaxJobs : ExecListInterfaces(j)
    \/ \E j \in 1..MaxJobs : ExecWriteInterface(j)
    \/ \E j \in 1..MaxJobs : ExecList(j)
    \/ \E j \in 1..MaxJobs : ExecDelete(j)
    \/ \E j \in 1..MaxJobs : ExecCreate(j)
    \/ \E j \in 1..MaxJobs, running \in BOOLEAN : ExecVerify(j, running)

JobSpec == JobInit /\ [][JobNext]_vars

(***************************************************************************)
(* Applies next to the requests that delete a job, a peer or the WAN.      *)
(***************************************************************************)
\* the applies started next to the deleting requests
MaxDeleteJobs == 1

DeleteNext ==
    \/ \E p \in PeerIds : Len(jobs) < MaxDeleteJobs /\ DeployToMikrotik(p, TRUE)
    \/ \E j \in 1..MaxJobs : DeleteJob(j)
    \/ \E j \in 1..MaxJobs : DeleteJobRejected(j)
    \/ \E p \in PeerIds : DeletePeerClear(p)
    \/ ClearList
    \/ ClearDelete
    \/ ClearApiError
    \/ \E p \in PeerIds : DeletePeerCascade(p)
    \/ DeleteWanNetwork
    \/ \E j \in 1..MaxJobs : ExecStart(j) /\ RowSurvives(j)
    \/ \E j \in 1..MaxJobs, c \in ConnResults :
          ExecTestConnection(j, c) /\ RowSurvives(j)
    \/ \E j \in 1..MaxJobs : ExecDesiredState(j) /\ RowSurvives(j)
    \/ \E j \in 1..MaxJobs : ExecBackup(j) /\ RowSurvives(j)
    \/ \E j \in 1..MaxJobs : ExecListInterfaces(j) /\ RowSurvives(j)
    \/ \E j \in 1..MaxJobs : ExecWriteInterface(j) /\ RowSurvives(j)
    \/ \E j \in 1..MaxJobs : ExecList(j) /\ RowSurvives(j)
    \/ \E j \in 1..MaxJobs : ExecDelete(j) /\ RowSurvives(j)
    \/ \E j \in 1..MaxJobs : ExecCreate(j) /\ RowSurvives(j)
    \/ \E j \in 1..MaxJobs, running \in BOOLEAN :
          ExecVerify(j, running) /\ RowSurvives(j)
    \/ \E j \in 1..MaxJobs : ExecStale(j)

DeleteSpec == Init /\ [][DeleteNext]_vars

(***************************************************************************)
(* The refresh flag: services are published, configurations fetched and    *)
(* peers updated; create_peer stores no peer_metadata and, for a MikroTik, *)
(* the auto deploy setting of its body.                                    *)
(***************************************************************************)
MetaInit ==
    /\ router = EmptyRouter
    /\ router0 = router
    /\ jobs = <<>>
    /\ task = <<>>
    /\ clear = [pc |-> "idle", fam |-> 1, todo |-> {}]
    /\ overlay = 1
    /\ reply = NoReply
    /\ store = EmptyStore(Cidr(Ip(10, 0, 0, 0), 29), Cidr(Ip(10, 0, 5, 0), 30))
    /\ mikrotik_api_status = NoApiStatus
    /\ inflight = {}
    /\ peer_columns \in
          {c \in [PeerIds -> PeerColumns] :
              \A p \in PeerIds :
                 /\ c[p].peer_metadata = {}
                 /\ c[p].mikrotik_auto_deploy => GetPeer(p).type = "mikrotik"}
    /\ hash_seed = 1
    /\ undecryptable = {}

MetaNext ==
    \/ \E p \in PeerIds, auto_deploy \in BOOLEAN : CreateService(p, auto_deploy)
    \/ \E p \in PeerIds : CreateServiceRejected(p)
    \/ \E p \in PeerIds, generated \in BOOLEAN : GetPeerConfig(p, generated)
    \/ \E p \in PeerIds, peer_in \in PeerColumns : UpdatePeer(p, peer_in)

MetaSpec == MetaInit /\ [][MetaNext]_vars

(***************************************************************************)
(* The generator asked again and again about an overlay whose peers may    *)
(* switch route_all_traffic, by a server that may be restarted.            *)
(***************************************************************************)
GenInit ==
    /\ router = EmptyRouter
    /\ router0 = router
    /\ jobs = <<>>
    /\ task = <<>>
    /\ clear = [pc |-> "idle", fam |-> 1, todo |-> {}]
    /\ overlay \in 1..Len(GenOverlays)
    /\ reply = NoReply
    /\ store = EmptyStore(Cidr(Ip(10, 0, 0, 0), 29), Cidr(Ip(10, 0, 5, 0), 30))
    /\ mikrotik_api_status = NoApiStatus
    /\ inflight = {}
    /\ peer_columns = NoColumns
    /\ hash_seed \in HashSeeds
    /\ undecryptable = {}

GenNext ==
    \/ \E p \in PeerIds : GenerateConfig(p)
    \/ \E p \in PeerIds : ComputeDesiredState(p)
    \/ \E seed \in HashSeeds : Restart(seed)
    \/ \E p \in PeerIds, peer_in \in PeerColumns : UpdatePeer(p, peer_in)

GenSpec == GenInit /\ [][GenNext]_vars

(***************************************************************************)
(* Applies and requests on peers some of whose stored secrets cannot be    *)
(* decrypted, on a router that starts empty.                               *)
(***************************************************************************)
CredInit ==
    /\ router = EmptyRouter
    /\ router0 = router
    /\ jobs = <<>>
    /\ task = <<>>
    /\ clear = [pc |-> "idle", fam |-> 1, todo |-> {}]
    /\ overlay = 1
    /\ reply = NoReply
    /\ store = EmptyStore(Cidr(Ip(10, 0, 0, 0), 29), Cidr(Ip(10, 0, 5, 0), 30))
    /\ mikrotik_api_status = NoApiStatus
    /\ inflight = {}
    /\ peer_columns = NoColumns
    /\ hash_seed = 1
    /\ undecryptable \in
          SUBSET {<<p, secret>> : p \in {q \in PeerIds : GetPeer(q).type = "mikrotik"},
                                  secret \in Secrets}

CredNext ==
    \/ \E p \in PeerIds : DeployToMikrotik(p, TRUE)
    \/ \E p \in PeerIds :
          FirstUndecryptable("deploy", p) = {} /\ DeployToMikrotik(p, FALSE)
    \/ \E p \in PeerIds : FirstUndecryptable("preflight", p) = {} /\ Preflight(p)
    \/ \E p \in PeerIds : FirstUndecryptable("verify", p) = {} /\ Verify(p)
    \/ \E p \in PeerIds, op \in {"deploy", "preflight", "verify", "clear"} :
          RequestDecryptFails(op, p)
    \/ \E p \in PeerIds, secret \in Secrets : ReenterSecret(p, secret)
    \/ \E j \in 1..MaxJobs : ExecStart(j)
    \/ \E j \in 1..MaxJobs : ExecDecryptError(j)
    \/ \E j \in 1..MaxJobs, c \in ConnResults :
          Decrypts(j) /\ ExecTestConnection(j, c)
    \/ \E j \in 1..MaxJobs : Decrypts(j) /\ ExecDesiredState(j)
    \/ \E j \in 1..MaxJobs : ExecBackup(j)
    \/ \E j \in 1..MaxJobs : ExecListInterfaces(j)
    \/ \E j \in 1..MaxJobs : ExecWriteInterface(j)
    \/ \E j \in 1..MaxJobs : ExecList(j)
    \/ \E j \in 1..MaxJobs : ExecDelete(j)
    \/ \E j \in 1..MaxJobs : ExecCreate(j)
    \/ \E j \in 1..MaxJobs, running \in BOOLEAN : ExecVerify(j, running)

CredSpec == CredInit /\ [][CredNext]_vars

(***************************************************************************)
(* Preflight on routers that hold entries of the operator which clash with *)
(* what the overlay asks for.                                              *)
(***************************************************************************)
\* entries of the operator, one per check of preflight_check: an interface
\* with another name on the desired listen port, the tunnel address, a route
\* to the subnet of p2, the NAT key of service s1, the input rule
ClashSeeds ==
    {[family |-> "wireguard_interfaces", id |-> 1,
      item |-> ItemOf(ForeignInterface)],
     [family |-> "wireguard_interfaces", id |-> 2,
      item |-> Item("wg-office", "", <<>>, <<"51820", "office-key">>)],
     [family |-> "ip_addresses", id |-> 3,
      item |-> Item("", "ether1", <<>>, <<"10.0.0.1", "/24">>)],
     [family |-> "routes", id |-> 4,
      item |-> Item("", "", <<"uplink">>, <<"192.168.10.0/24", "ether1">>)],
     [family |-> "nat_rules", id |-> 5,
      item |-> Item("", "", <<>>, <<"dstnat", "10.0.5.1", "tcp", "dst-nat",
                                    "192.168.1.99", "8080", "8080">>)],
     [family |-> "firewall_filter_rules", id |-> 6,
      item |-> Item("", "", <<>>, <<"input", "accept", "wg-wan-overlay", "">>)]}

\* the router that holds the entries seeds
RouterWith(seeds) ==
    [f \in Families |->
        {Resource(sd.id, sd.item) : sd \in {x \in seeds : x.family = f}}]

PreflightInit ==
    /\ \E seeds \in SUBSET ClashSeeds : router = RouterWith(seeds)
    /\ router0 = router
    /\ jobs = <<>>
    /\ task = <<>>
    /\ clear = [pc |-> "idle", fam |-> 1, todo |-> {}]
    /\ overlay \in 1..Len(Overlays)
    /\ reply = NoReply
    /\ store = EmptyStore(Cidr(Ip(10, 0, 0, 0), 29), Cidr(Ip(10, 0, 5, 0), 30))
    /\ mikrotik_api_status = NoApiStatus
    /\ inflight = {}
    /\ peer_columns = NoColumns
    /\ hash_seed = 1
    /\ undecryptable = {}

PreflightNext ==
    \/ \E p \in PeerIds : Preflight(p)
    \/ \E p \in PeerIds : PreflightConflictError(p)

PreflightSpec == PreflightInit /\ [][PreflightNext]_vars

(***************************************************************************)
(* find_available_nat_subnet as a function of the conflicting subnet and   *)
(* the existing subnets.  Every network here has a prefix of at most 24    *)
(* bits, so addresses are counted in blocks of 256: a.b.c.0/n is kept as   *)
(* 0.a.b.c/(n + 8), which leaves overlap and containment as they are.      *)
(***************************************************************************)
\* ipaddress.ip_network(f"{a}.{b}.{c}.0/{prefixlen}", strict=False)
IpNetwork(a, b, c, prefixlen) ==
    LET cidr == Cidr(Ip(0, a, b, c), prefixlen + 8)
    IN  Cidr(NetworkAddress(cidr), cidr.prefixlen)

\* "return None"
NoSubnet == Cidr(None, None)

\* the candidates of the first loop, 172.{16..31}.0.0/prefix_len, and of the
\* second, 192.168.{0..255}.0/prefix_len
Candidate172(base, prefixlen) == IpNetwork(172, base, 0, prefixlen)

Candidate192(third_octet, prefixlen) == IpNetwork(192, 168, third_octet, prefixlen)

\* "conflict_found": the candidate overlaps an existing subnet
ConflictFound(candidate_net, existing_subnets) ==
    \E existing \in existing_subnets : Overlaps(candidate_net, existing)

\* find_available_nat_subnet(conflicting_subnet, existing_subnets): the first
\* free candidate of the first loop, else of the second, else None
FindAvailableNatSubnet(conflicting_subnet, existing_subnets) ==
    LET prefix_len == conflicting_subnet.prefixlen - 8
        free172 == {base \in 16..31 :
                       ~ConflictFound(Candidate172(base, prefix_len),
                                      existing_subnets)}
        free192 == {third_octet \in 0..255 :
                       ~ConflictFound(Candidate192(third_octet, prefix_len),
                                      existing_subnets)}
    IN  IF free172 # {} THEN Candidate172(SetMin(free172), prefix_len)
        ELSE IF free192 # {} THEN Candidate192(SetMin(free192), prefix_len)
        ELSE NoSubnet

\* the conflicting subnets asked about: 10.0.0.0/8, 172.16.0.0/12,
\* 10.8.0.0/13, 192.168.0.0/16, 10.1.10.0/24
ConflictingSubnets ==
    {IpNetwork(10, 0, 0, 8), IpNetwork(172, 16, 0, 12), IpNetwork(10, 8, 0, 13),
     IpNetwork(192, 168, 0, 16), IpNetwork(10, 1, 10, 24)}

\* the subnets that may be in use already
ExistingSubnets ==
    {IpNetwork(172, 16, 0, 12), IpNetwork(192, 168, 0, 16),
     IpNetwork(172, 0, 0, 8), IpNetwork(172, 24, 0, 13), IpNetwork(10, 0, 0, 8)}

\* the call returns; the reply carries the question (existing subnets in
\* issues, conflicting subnet first in body) and the result
FindNatSubnet(call) ==
    /\ call \in inflight
    /\ call.op = "find-nat-subnet"
    /\ inflight' = inflight \ {call}
    /\ reply' = [NoReply EXCEPT
                    !.op = "find-nat-subnet", !.status = 200,
                    !.issues = call.existing_subnets,
                    !.body = <<call.conflicting_subnet,
                               FindAvailableNatSubnet(call.conflicting_subnet,
                                                      call.existing_subnets)>>]
    /\ UNCHANGED <<router, router0, jobs, task, clear, overlay, store,
                   mikrotik_api_status, peer_columns, hash_seed, undecryptable>>

\* a call of find_available_nat_subnet has been made with some arguments
NatInit ==
    /\ router = EmptyRouter
    /\ router0 = router
    /\ jobs = <<>>
    /\ task = <<>>
    /\ clear = [pc |-> "idle", fam |-> 1, todo |-> {}]
    /\ overlay = 1
    /\ reply = NoReply
    /\ store = EmptyStore(Cidr(Ip(10, 0, 0, 0), 29), Cidr(Ip(10, 0, 5, 0), 30))
    /\ mikrotik_api_status = NoApiStatus
    /\ \E conflicting_subnet \in ConflictingSubnets,
          existing_subnets \in SUBSET ExistingSubnets :
             inflight = {[op |-> "find-nat-subnet",
                          conflicting_subnet |-> conflicting_subnet,
                          existing_subnets |-> existing_subnets]}
    /\ peer_columns = NoColumns
    /\ hash_seed = 1
    /\ undecryptable = {}

NatNext == \E call \in inflight : FindNatSubnet(call)

NatSpec == NatInit /\ [][NatNext]_vars

(***************************************************************************)
(* The endpoint of a peer, from the request body to the router's peer      *)
(* entry.  A text is the sequence of its tokens: ":", "[", "]" and the     *)
(* words between them, so "[2001:db8::1]:51820" is                         *)
(* <<"[", "2001", ":", "db8", ":", ":", "1", "]", ":", "51820">>.  The     *)
(* empty sequence stands for None.                                         *)
(***************************************************************************)
\* the numbers whose decimal text occurs as a word
Numerals == {0, 1, 443, 2001, 51820, 65535, 65536, 70000}

\* int(text) does not raise
IsInt(text) == Len(text) = 1 /\ \E n \in Numerals : ToString(n) = text[1]

\* int(text)
IntOf(text) == CHOOSE n \in Numerals : ToString(n) = text[1]

\* the positions of ":" in v
Colons(v) == {i \in 1..Len(v) : v[i] = ":"}

\* PeerBase.validate_endpoint(v): the value that is stored
ValidateEndpoint(v) ==
    IF v = <<>> THEN <<>>
    ELSE LET port_text == SubSeq(v, SetMax(Colons(v)) + 1, Len(v))
             valid_port == /\ Colons(v) # {}
                           /\ IsInt(port_text)
                           /\ 1 <= IntOf(port_text)
                           /\ IntOf(port_text) <= 65535
         IN  IF valid_port THEN v
             ELSE IF Cardinality(Colons(v)) > 1 /\ v[1] # "["
                  THEN <<"[">> \o v \o <<"]", ":", "51820">>
             ELSE IF v[1] = "[" /\ \E i \in 1..Len(v) : v[i] = "]"
                  THEN IF v[Len(v)] = "]" THEN v \o <<":", "51820">> ELSE v
             ELSE v \o <<":", "51820">>

\* get_mikrotik_desired_state: parts = other_peer.endpoint.split(":");
\* endpoint-address = parts[0], endpoint-port = parts[1] or "51820"
EndpointParts(endpoint) ==
    IF Colons(endpoint) = {} THEN <<endpoint, <<"51820">>>>
    ELSE LET first == SetMin(Colons(endpoint))
             rest == Colons(endpoint) \ {first}
             second == IF rest = {} THEN Len(endpoint) + 1 ELSE SetMin(rest)
         IN  <<SubSeq(endpoint, 1, first - 1),
               SubSeq(endpoint, first + 1, second - 1)>>

\* the hosts a request may name: a host name, an IPv4 address, IPv6
\* addresses bare and in brackets
EndpointHosts ==
    {<<"vpn.example.com">>, <<"203.0.113.5">>,
     <<"2001", ":", "db8", ":", ":", "1">>, <<"fe80", ":", ":", "2001">>,
     <<":", ":", "1">>,
     <<"[", "2001", ":", "db8", ":", ":", "1", "]">>,
     <<"[", ":", ":", "1", "]">>}

\* what may follow the host: nothing, ":" and a port, ":" and something else
EndpointSuffixes ==
    {<<>>, <<":">>, <<":", "http">>}
    \cup {<<":", ToString(n)>> : n \in Numerals}

\* the endpoints of the request bodies
Endpoints ==
    {<<>>} \cup {host \o suffix : host \in EndpointHosts,
                                   suffix \in EndpointSuffixes}

\* POST /wan/{wan_id}/peers with endpoint v: PeerCreate validates, create_peer
\* stores peer_in.endpoint; the reply carries v in body
CreatePeerWithEndpoint(peer_id, v) ==
    /\ peer_id \in PeerIds
    /\ peer_columns' = [peer_columns EXCEPT
                           ![peer_id].endpoint = ValidateEndpoint(v)]
    /\ reply' = [NoReply EXCEPT !.op = "create-peer", !.peer_id = peer_id,
                                !.status = 201, !.body = v]
    /\ UNCHANGED <<router, router0, jobs, task, clear, overlay, store,
                   mikrotik_api_status, inflight, hash_seed, undecryptable>>

\* get_mikrotik_desired_state(peer_id): the endpoint fields of the entry for
\* other_peer, first in body; nothing when it has no endpoint
DesiredEndpoint(peer_id, other_peer) ==
    /\ peer_id \in PeerIds
    /\ other_peer \in PeerIds \ {peer_id}
    /\ GetPeer(peer_id).type = "mikrotik"
    /\ reply' = [NoReply EXCEPT
                    !.op = "desired-endpoint", !.peer_id = other_peer,
                    !.status = 200,
                    !.body = IF peer_columns[other_peer].endpoint = <<>>
                             THEN <<>>
                             ELSE EndpointParts(peer_columns[other_peer].endpoint)]
    /\ UNCHANGED <<router, router0, jobs, task, clear, overlay, store,
                   mikrotik_api_status, inflight, peer_columns, hash_seed,
                   undecryptable>>

\* the peers exist, none has an endpoint yet
EndpointInit ==
    /\ router = EmptyRouter
    /\ router0 = router
    /\ jobs = <<>>
    /\ task = <<>>
    /\ clear = [pc |-> "idle", fam |-> 1, todo |-> {}]
    /\ overlay = 1
    /\ reply = NoReply
    /\ store = EmptyStore(Cidr(Ip(10, 0, 0, 0), 29), Cidr(Ip(10, 0, 5, 0), 30))
    /\ mikrotik_api_status = NoApiStatus
    /\ inflight = {}
    /\ peer_columns = [p \in PeerIds |->
                          [peer_metadata |-> {}, mikrotik_auto_deploy |-> FALSE,
                           endpoint |-> <<>>]]
    /\ hash_seed = 1
    /\ undecryptable = {}

EndpointNext ==
    \/ \E p \in PeerIds, v \in Endpoints :
          GetPeer(p).type # "mikrotik" /\ CreatePeerWithEndpoint(p, v)
    \/ \E p, o \in PeerIds : DesiredEndpoint(p, o)

EndpointSpec == EndpointInit /\ [][EndpointNext]_vars

(***************************************************************************)
(* Jobs and their background tasks under fair scheduling: the event loop   *)
(* runs every task that can take a step, and every router call returns or  *)
(* raises.                                                                 *)
(***************************************************************************)
\* the steps of the background task of job j
WorkerStep(j) ==
    \/ ExecStart(j)
    \/ \E job_loaded \in BOOLEAN : ExecLoadError(j, job_loaded)
    \/ \E c \in ConnResults : ExecTestConnection(j, c)
    \/ ExecDesiredState(j)
    \/ ExecBackup(j)
    \/ ExecListInterfaces(j)
    \/ ExecWriteInterface(j)
    \/ ExecList(j)
    \/ ExecDelete(j)
    \/ ExecCreate(j)
    \/ \E running \in BOOLEAN : ExecVerify(j, running)
    \/ \E e \in ApiErrors : ExecApiError(j, e)
    \/ \E e \in Exceptions : ExecException(j, e)

LiveNext ==
    \/ \E p \in PeerIds : DeployToMikrotik(p, TRUE)
    \/ \E j \in 1..MaxJobs : RetryJob(j)
    \/ \E j \in 1..MaxJobs : CancelJob(j)
    \/ \E j \in 1..MaxJobs : WorkerStep(j)

LiveSpec ==
    /\ JobInit
    /\ [][LiveNext]_vars
    /\ \A j \in 1..MaxJobs : WF_vars(WorkerStep(j))

(***************************************************************************)
(* Clear on a router that nothing else touches.                            *)
(***************************************************************************)
ClearInit ==
    /\ router \in ClearSeeds
    /\ router0 = router
    /\ jobs = <<>>
    /\ task = <<>>
    /\ clear = [pc |-> "idle", fam |-> 1, todo |-> {}]
    /\ overlay = 1
    /\ reply = NoReply
    /\ store = EmptyStore(Cidr(Ip(10, 0, 0, 0), 29), Cidr(Ip(10, 0, 5, 0), 30))
    /\ mikrotik_api_status = NoApiStatus
    /\ inflight = {}
    /\ peer_columns = NoColumns
    /\ hash_seed = 1
    /\ undecryptable = {}

ClearNext ==
    \/ \E p \in PeerIds : ClearBegin(p)
    \/ ClearList
    \/ ClearDelete
    \/ ClearApiError

ClearSpec == ClearInit /\ [][ClearNext]_vars

(***************************************************************************)
(* The overlay store under concurrent requests.                            *)
(***************************************************************************)
StoreInit ==
    /\ router = EmptyRouter
    /\ router0 = router
    /\ jobs = <<>>
    /\ task = <<>>
    /\ clear = [pc |-> "idle", fam |-> 1, todo |-> {}]
    /\ overlay = 1
    /\ reply = NoReply
    /\ store \in StoreSeeds
    /\ mikrotik_api_status = NoApiStatus
    /\ inflight = {}
    /\ peer_columns = NoColumns
    /\ hash_seed = 1
    /\ undecryptable = {}

StoreNext ==
    \/ CreatePeerBegin
    \/ \E r \in store.open : CreatePeerAllocate(r)
    \/ \E r \in store.open : CreatePeerCommit(r)
    \/ \E p \in store.peers : CreateServiceBegin(p.id)
    \/ \E r \in store.open : CreateServiceAllocate(r)
    \/ \E r \in store.open : CreateServiceCommit(r)
    \/ \E p \in store.peers : DeletePeerBegin(p.id)
    \/ \E r \in store.open : DeletePeerCommit(r)
    \/ \E s \in store.services : DeleteServiceBegin(s.id)
    \/ \E r \in store.open : DeleteServiceCommit(r)
    \/ \E t \in TunnelRanges, s \in SharedRanges : UpdateWanNetwork(t, s)

StoreSpec == StoreInit /\ [][StoreNext]_vars

(***************************************************************************)
(* Peers created with and without local subnets, and deleted, under        *)
(* concurrent requests.                                                    *)
(***************************************************************************)
PeerNext ==
    \/ CreatePeerBegin
    \/ \E k \in 1..Len(SubnetBodies) : CreatePeerSubmit(k)
    \/ \E r \in store.open : CreatePeerCheck(r)
    \/ \E r \in store.open : CreatePeerAllocate(r)
    \/ \E r \in store.open : CreatePeerCommit(r)
    \/ \E p \in store.peers : DeletePeerBegin(p.id)
    \/ \E r \in store.open : DeletePeerCommit(r)

PeerSpec == StoreInit /\ [][PeerNext]_vars

(***************************************************************************)
(* Local subnets stored by create_peer and by add_subnet, while the ranges *)
(* of the WAN may be updated.                                              *)
(***************************************************************************)
SubnetNext ==
    \/ \E k \in 1..Len(SubnetBodies) : CreatePeerSubmit(k)
    \/ \E r \in store.open : CreatePeerCheck(r)
    \/ \E r \in store.open : CreatePeerAllocate(r)
    \/ \E r \in store.open : CreatePeerCommit(r)
    \/ \E p \in store.peers, cidr \in SubnetCidrs : AddSubnet(p.id, cidr)
    \/ \E t \in TunnelRanges, s \in SharedRanges : UpdateWanNetwork(t, s)

SubnetSpec == StoreInit /\ [][SubnetNext]_vars

(***************************************************************************)
(* Properties.                                                             *)
(***************************************************************************)
\* managed: the comment starts with the ownership prefix; foreign: it does not
Managed(r) == StartsWithPrefix(r.comment)

Foreign(r) == ~StartsWithPrefix(r.comment)

ActiveJobs(p) ==
    {j \in JobIds : jobs[j].peer_id = p /\ jobs[j].status \in {"pending", "running"}}

\* C1: for every peer, at most one of its jobs is pending or running at any
\* moment (a request to apply while one is pending or running creates no job).
C1_AtMostOneActiveJobPerPeer ==
    \A p \in PeerIds : Cardinality(ActiveJobs(p)) <= 1

\* C2: no step of an apply updates or deletes a router resource whose comment
\* does not start with the prefix, in any family.
C2_ForeignNeverTouched ==
    [][\A f \in Families : \A r \in router[f] : Foreign(r) => r \in router'[f]]_vars

\* the entries the desired state of job j asks for in a family
DesiredSet(j, f) ==
    IF f = "wireguard_interfaces" THEN {Desired(j).interface}
    ELSE SeqRange(Desired(j)[f])

\* the managed entries of router rt are the desired ones, family by family,
\* and the foreign entries of the initial router are still there unchanged
Converged(j, rt) ==
    /\ \A f \in Families :
          {ItemOf(r) : r \in {x \in rt[f] : Managed(x)}} = DesiredSet(j, f)
    /\ \A f \in Families : \A r \in router0[f] : Foreign(r) => r \in rt[f]

\* C3: when an apply finishes with status completed, the router's managed
\* resources are exactly the desired ones in every family and every foreign
\* resource is still present unchanged.
C3_ConvergedWhenCompleted ==
    [][\A j \in JobIds :
          jobs[j].status # "completed" /\ jobs'[j].status = "completed"
              => Converged(j, router')]_vars

StatusRank(status) ==
    CASE status = "pending" -> 0
      [] status = "running" -> 1
      [] status \in Terminal -> 2

\* C4: a job's status only moves forward in pending < running < {completed,
\* failed, cancelled}, and a terminal status never changes again.
C4_StatusMonotone ==
    [][\A j \in JobIds :
          /\ StatusRank(jobs[j].status) <= StatusRank(jobs'[j].status)
          /\ jobs[j].status \in Terminal => jobs'[j].status = jobs[j].status]_vars

\* C5: a cancelled job stays cancelled, and once its task has passed a
\* milestone boundary with the cancellation in place the task makes no router
\* write and leaves backup_config as it is.
C5_CancelStopsTheTask ==
    [][\A j \in JobIds :
          /\ jobs[j].status = "cancelled" => jobs'[j].status = "cancelled"
          /\ task[j].boundarySeen =>
                /\ task'[j].lastWrite = task[j].lastWrite
                /\ jobs'[j].backup_config = jobs[j].backup_config]_vars

\* C6: backup_config is written only once per apply, while the apply has made
\* no router write yet; it then holds the router's managed resources of that
\* moment (and nothing that is not on the router); every router write of the
\* apply comes after it, and it is never changed afterwards.
C6_BackupOnceBeforeWrites ==
    [][\A j \in JobIds :
          /\ jobs'[j].backup_config # jobs[j].backup_config =>
                /\ jobs[j].backup_config = <<>>
                /\ Len(jobs'[j].backup_config) = 1
                /\ task[j].lastWrite = <<>> /\ task'[j].lastWrite = <<>>
                /\ \A f \in Families :
                      /\ {r \in router[f] : Managed(r)}
                             \subseteq jobs'[j].backup_config[1][f]
                      /\ jobs'[j].backup_config[1][f] \subseteq router[f]
          /\ task'[j].lastWrite # task[j].lastWrite =>
                jobs[j].backup_config # <<>>]_vars

\* an apply that completed kept in its backup the stale managed route it deleted
C6_Witness ==
    \E j \in JobIds :
        /\ jobs[j].status = "completed"
        /\ jobs[j].backup_config # <<>>
        /\ StaleManagedRoute \in jobs[j].backup_config[1]["routes"]
        /\ StaleManagedRoute \notin router["routes"]

NonEmptyText(msg) == \E i \in 1..Len(msg) : msg[i] # ""

WriteRank(w) ==
    LET fr == CASE w[1] = "wireguard_interfaces" -> 0
                [] w[1] = "wireguard_peers" -> 1
                [] w[1] = "ip_addresses" -> 2
                [] w[1] = "routes" -> 3
                [] w[1] = "firewall_filter_rules" -> 4
                [] w[1] = "nat_rules" -> 5
    IN  2 * fr + (IF w[2] = "add" THEN 1 ELSE 0)

\* C8: the router writes of one apply follow the family order interface,
\* peers, addresses, routes, firewall rules, NAT rules, and within a family
\* every deletion comes before every addition.
C8_WriteOrder ==
    [][\A j \in JobIds :
          task[j].lastWrite # <<>> /\ task'[j].lastWrite # task[j].lastWrite
              => WriteRank(task[j].lastWrite) <= WriteRank(task'[j].lastWrite)]_vars

\* an apply that deleted a stale managed route and ended with adding a NAT rule
C8_Witness ==
    \E j \in JobIds :
        /\ jobs[j].status = "completed"
        /\ task[j].lastWrite # <<>>
        /\ task[j].lastWrite[1] = "nat_rules" /\ task[j].lastWrite[2] = "add"
        /\ StaleManagedRoute \in router0["routes"]
        /\ StaleManagedRoute \notin router["routes"]

\* C9: when a clear has completed without error, get_managed_resources() is
\* empty in every family and every resource whose comment does not start with
\* the prefix is still present; a router without such resources is unchanged.
C9_ClearRemovesOnlyManaged ==
    clear.pc = "done" =>
        /\ \A f \in Families : GetManagedResources(router)[f] = {}
        /\ \A f \in Families : \A r \in router0[f] : Foreign(r) => r \in router[f]
        /\ (\A f \in Families : \A r \in router0[f] : Foreign(r)) => router = router0

ClearRank(family) ==
    CASE family = "nat_rules" -> 1
      [] family = "firewall_filter_rules" -> 2
      [] family = "routes" -> 3
      [] family = "ip_addresses" -> 4
      [] family = "wireguard_peers" -> 5
      [] family = "wireguard_interfaces" -> 6

\* C10: a clear deletes in the order NAT rules, firewall rules, routes,
\* addresses, peers, interface: when it deletes a resource of a family, no
\* managed resource of a family earlier in that order is left on the router
\* (so none of any other family when it deletes the interface).
C10_ClearOrder ==
    [][\A f \in Families :
          (\E r \in router[f] : r \notin router'[f]) =>
              \A g \in Families :
                  ClearRank(g) < ClearRank(f) => ~(\E r \in router[g] : Managed(r))]_vars

\* a clear that completed on a router that had a managed interface, a managed
\* peer and a managed NAT rule
C10_Witness ==
    /\ clear.pc = "done"
    /\ \E r \in router0["wireguard_interfaces"] : Managed(r)
    /\ \E r \in router0["wireguard_peers"] : Managed(r)
    /\ \E r \in router0["nat_rules"] : Managed(r)
    /\ \A f \in Families : ~(\E r \in router[f] : Managed(r))

\* C11: whatever the interleaving of concurrent create_peer and delete_peer
\* requests, no two peers of the WAN have the same tunnel_ip.
C11_TunnelIpUnique ==
    \A p \in store.peers : \A q \in store.peers :
        p.tunnel_ip = q.tunnel_ip => p.id = q.id

\* the services that belong to a peer of the WAN
WanServices == {s \in store.services : \E p \in store.peers : p.id = s.peer_id}

\* C12: whatever the interleaving of concurrent create_service and
\* delete_service requests, no two services of peers of the WAN have the same
\* shared_ip.
C12_SharedIpUnique ==
    \A s \in WanServices : \A t \in WanServices :
        s.shared_ip = t.shared_ip => s.id = t.id

\* the host addresses of a range: all but the network and the broadcast
\* address (a /31 and a /32 have no such two addresses to leave out)
UsableHosts(cidr) ==
    LET all == NetworkAddress(cidr)..BroadcastAddress(cidr)
    IN  IF Cardinality(all) <= 2 THEN all
        ELSE all \ {NetworkAddress(cidr), BroadcastAddress(cidr)}

\* C13: every peer's tunnel_ip is a host address of the WAN's current
\* tunnel_ip_range and every service's shared_ip is a host address of its
\* current shared_services_range, also after update_wan_network.
C13_AddressesInsideRanges ==
    /\ \A p \in store.peers : p.tunnel_ip \in UsableHosts(store.tunnel_ip_range)
    /\ \A s \in WanServices : s.shared_ip \in UsableHosts(store.shared_services_range)

C15_RouterCallsLogged ==
    \A j \in JobIds :
        (task[j].conn # "untested" \/ task[j].lastWrite # <<>>)
            => jobs[j].api_call_logs # <<>>

\* C20: when a step of an apply raises (a router API error or any other
\* exception) the job becomes failed with a non-empty error_message,
\* completed_at set and the stack trace in operations_log, and backup_config
\* is left as it was.
C20_FailureRecorded ==
    [][\A j \in JobIds :
          (jobs[j].status # "failed" /\ jobs'[j].status = "failed") =>
              /\ NonEmptyText(jobs'[j].error_message)
              /\ jobs'[j].completed_at
              /\ \E i \in 1..Len(jobs'[j].operations_log) :
                    jobs'[j].operations_log[i] = "traceback"
              /\ jobs'[j].backup_config = jobs[j].backup_config]_vars

\* the step answered a request that only inspects: deploy without approval,
\* preflight or verify
Inspected(r) ==
    \/ r.op = "deploy" /\ ~r.approve
    \/ r.op \in {"preflight", "verify"}

\* C16: with REQUIRE_DEPLOY_APPROVAL on, a deploy request without approve=true
\* creates no deployment job, starts no task and leaves the router as it was;
\* when it is answered 200 the answer is the plan of the peer against the
\* router's managed resources.
C16_UnapprovedDeployOnlyPlans ==
    [][(reply'.op = "deploy" /\ ~reply'.approve)
          => /\ jobs' = jobs
             /\ task' = task
             /\ router' = router
             /\ reply'.status = 200 =>
                   reply'.plan =
                       PlanConfiguration(
                           GetMikrotikDesiredState(Peers, reply'.peer_id),
                           GetManagedResources(router))]_vars

\* an unapproved deploy was answered with a plan that has routes to create,
\* and there is still no job
C16_Witness ==
    /\ reply.op = "deploy"
    /\ ~reply.approve
    /\ reply.status = 200
    /\ reply.plan["routes"][1] > 0
    /\ reply.plan["routes"][2] > 0
    /\ jobs = <<>>
    /\ router = router0

\* C17: a step that answers a plan (deploy without approval), a preflight or a
\* verify changes nothing on the router and creates or modifies no deployment
\* job, whatever the router and the overlay hold.
C17_InspectionWritesNothing ==
    [][Inspected(reply') => router' = router /\ jobs' = jobs /\ task' = task]_vars

\* verify reported issues on a router that holds a stale managed route while
\* an apply of the peer is in progress
C17_Witness ==
    /\ reply.op = "verify"
    /\ reply.status = 200
    /\ reply.issues # {}
    /\ StaleManagedRoute \in router["routes"]
    /\ \E j \in JobIds : jobs[j].status = "running"

\* C18: a verify of the peer that directly follows the completion of its apply
\* reports in_sync with no issues, for every desired state (several routed
\* subnets of one remote peer, a service on both protocols).
C18_InSyncAfterApply ==
    [][(/\ reply.op = "apply-completed"
        /\ reply'.op = "verify"
        /\ reply'.peer_id = reply.peer_id
        /\ reply'.status = 200)
          => reply'.in_sync /\ reply'.issues = {}]_vars

\* the managed interface of the peer is on the router with a listen-port that
\* is not the desired one
ListenPortDrift(rt, peer_id) ==
    \E r \in rt["wireguard_interfaces"] :
        /\ StartsWithPrefix(r.comment)
        /\ r.name = InterfaceName(GetPeer(peer_id))
        /\ r.data[1] # GetPeer(peer_id).listen_port

\* C19: once an apply of the peer has completed and the listen-port of its
\* managed interface has been changed on the router, verify answers
\* in_sync = false with an issue about the interface, and the router is left
\* as it was.
C19_ListenPortDriftReported ==
    [][(/\ reply'.op = "verify"
        /\ reply'.status = 200
        /\ GetPeer(reply'.peer_id).type = "mikrotik"
        /\ \E j \in JobIds : /\ jobs[j].peer_id = reply'.peer_id
                             /\ jobs[j].status = "completed"
        /\ ListenPortDrift(router, reply'.peer_id))
          => /\ ~reply'.in_sync
             /\ \E i \in reply'.issues : i[1] \in {"differs", "missing-interface"}
             /\ router' = router]_vars

\* the milestone table: percent on completion of each step
MilestoneTable == {5, 10, 15, 20, 30, 50, 60, 70, 80, 90, 100}

\* the step that stores a new progress value v for job j is the step v names,
\* and it has completed
StoredAfterItsStep(j, v) ==
    LET t == task[j]
        family == IF t.fam \in 1..Len(ApplyOrder) THEN ApplyOrder[t.fam] ELSE ""
        replaced == t.pc \in {"list", "del", "add"}
                    /\ (task'[j].fam > t.fam \/ task'[j].pc = "verify")
    IN  CASE v = 5 -> t.pc = "start" /\ jobs'[j].status = "running"
          [] v = 10 -> t.pc = "conn" /\ task'[j].conn = "ok"
          [] v = 15 -> t.pc = "desired"
          [] v = 20 -> t.pc = "backup"
                       /\ jobs'[j].backup_config = <<GetManagedResources(router)>>
          [] v = 30 -> t.pc = "iface_write"
                       /\ \E r \in router'["wireguard_interfaces"] :
                             r.name = DesiredInterfaceName(j)
          [] v = 40 -> /\ family = "wireguard_peers"
                       /\ t.pc \in {"list", "del"}
                       /\ task'[j].pc = "add"
                       /\ ~\E r \in ListForApply(router', family,
                                                 DesiredInterfaceName(j)) :
                              StartsWithPrefix(r.comment)
          [] v = 50 -> family = "wireguard_peers" /\ replaced
          [] v = 60 -> family = "ip_addresses" /\ replaced
          [] v = 70 -> family = "routes" /\ replaced
          [] v = 80 -> family = "firewall_filter_rules" /\ replaced
          [] v = 90 -> family = "nat_rules" /\ replaced
          [] v = 100 -> t.pc = "verify" /\ jobs'[j].status = "completed"
          [] OTHER -> FALSE

\* a step keeps the progress of every job, or raises it to a value of the
\* table that the step has earned; a new job starts at 0
ProgressFollows(table) ==
    /\ \A j \in JobIds :
          \/ jobs'[j].progress_percent = jobs[j].progress_percent
          \/ /\ jobs'[j].progress_percent > jobs[j].progress_percent
             /\ jobs'[j].progress_percent \in table
             /\ StoredAfterItsStep(j, jobs'[j].progress_percent)
    /\ \A j \in (1..Len(jobs')) \ JobIds : jobs'[j].progress_percent = 0

\* C21: during an apply progress_percent never decreases and only takes the
\* values of the milestone table 5, 10, 15, 20, 30, 50, 60, 70, 80, 90, 100
\* (0 before the job is accepted), each stored only after the step it names
\* has completed.
C21_ProgressMilestones == [][ProgressFollows(MilestoneTable)]_vars

\* C21 (amended): the same with the value 40 added to the table, stored when
\* the managed peer entries have been deleted and the desired ones are about
\* to be added.
C21_ProgressMilestonesWith40 == [][ProgressFollows(MilestoneTable \cup {40})]_vars

\* a job stands at 40: it has just deleted the last managed peer entry an
\* earlier apply left, and has not yet added the desired ones
C21_Witness ==
    \E j \in JobIds :
        /\ jobs[j].progress_percent = 40
        /\ jobs[j].status = "running"
        /\ task[j].pc = "add"
        /\ Len(task[j].lastWrite) = 3
        /\ task[j].lastWrite[1] = "wireguard_peers"
        /\ task[j].lastWrite[2] = "remove"

\* the step marks job j failed through the handler of MikrotikAPIError (the
\* other handler adds a traceback to operations_log)
FailsOnApiError(j) ==
    /\ jobs[j].status # "failed"
    /\ jobs'[j].status = "failed"
    /\ jobs'[j].operations_log = jobs[j].operations_log

\* the stored error text tells an authentication failure
AuthenticationFailure(msg) ==
    msg = <<"Connection test failed: ", "Authentication failed: ">>

\* the stored error text tells a connection failure
ConnectionFailure(msg) ==
    \/ msg = <<"Connection test failed: ", "Connection refused: ">>
    \/ msg = <<"Connection closed">>

\* C22: when an apply fails on a remote API error, the error text is in
\* job.error_message and the peer's mikrotik_api_status is auth-failed after
\* an authentication failure and unreachable after a connection failure; it
\* does not keep its previous value.
C22_ApiStatusFollowsFailure ==
    [][\A j \in JobIds :
          FailsOnApiError(j) =>
             /\ NonEmptyText(jobs'[j].error_message)
             /\ AuthenticationFailure(jobs'[j].error_message) =>
                   mikrotik_api_status'[jobs[j].peer_id] = "auth-failed"
             /\ ConnectionFailure(jobs'[j].error_message) =>
                   mikrotik_api_status'[jobs[j].peer_id] = "unreachable"]_vars

\* C23: cancel is accepted only for a pending or running job and sets it to
\* cancelled; retry is accepted only for a failed job, adds one pending job
\* for the same peer and leaves the original as it was; a rejected cancel or
\* retry changes no job; and no step changes a failed job or moves its task:
\* only the new job of a retry runs.
C23_CancelAndRetry ==
    [][/\ \A j \in JobIds :
             (jobs'[j].status = "cancelled" /\ jobs[j].status # "cancelled")
                => /\ jobs[j].status \in {"pending", "running"}
                   /\ jobs'[j] = [jobs[j] EXCEPT !.status = "cancelled"]
                   /\ reply'.op = "cancel" /\ reply'.job_id = j
       /\ (reply'.op = "cancel" /\ reply'.status = 200)
             => /\ reply'.job_id \in JobIds
                /\ jobs' = [jobs EXCEPT ![reply'.job_id].status = "cancelled"]
       /\ (reply'.op = "retry" /\ reply'.status = 200)
             => /\ reply'.job_id \in JobIds
                /\ jobs[reply'.job_id].status = "failed"
                /\ jobs' = Append(jobs, NewJob(jobs[reply'.job_id].peer_id))
       /\ (reply'.op \in {"cancel", "retry"} /\ reply'.status # 200)
             => jobs' = jobs /\ task' = task /\ router' = router
       /\ \A j \in JobIds :
             jobs[j].status = "failed" => jobs'[j] = jobs[j] /\ task'[j] = task[j]
      ]_vars


\* C24: no step removes the row of a job that is pending or running, neither
\* delete_job (which answers 400 and changes nothing) nor the cascade of
\* delete_peer or delete_wan_network.
C24_ActiveJobNeverRemoved ==
    [][/\ \A j \in JobIds :
             (~jobs[j].deleted /\ jobs'[j].deleted)
                => jobs[j].status \notin {"pending", "running"}
       /\ (reply'.op = "delete-job" /\ reply'.status = 400)
             => jobs' = jobs /\ task' = task]_vars

\* C25: a create_service that succeeds leaves needs_config_refresh set on
\* every peer of the WAN that is not a MikroTik or has auto deploy off; the
\* flag of such a peer goes away only in a successful config fetch for that
\* peer, which does clear it; a failed fetch changes nothing.
C25_RefreshFlag ==
    [][/\ (reply'.op = "create-service" /\ reply'.status = 201)
             => \A q \in PeerIds :
                   ToMark(q) =>
                      "needs_config_refresh" \in peer_columns'[q].peer_metadata
       /\ \A q \in PeerIds :
             (/\ ToMark(q)
              /\ "needs_config_refresh" \in peer_columns[q].peer_metadata
              /\ "needs_config_refresh" \notin peer_columns'[q].peer_metadata)
                => (reply'.op = "peer-config" /\ reply'.peer_id = q
                       /\ reply'.status = 200)
       /\ (reply'.op = "peer-config" /\ reply'.status = 200)
             => "needs_config_refresh"
                   \notin peer_columns'[reply'.peer_id].peer_metadata
       /\ (reply'.op = "peer-config" /\ reply'.status # 200)
             => peer_columns' = peer_columns]_vars

\* a submitted subnet overlaps the tunnel range or the shared services range
HasCritical(st, subnets) ==
    \E sn \in subnets :
       \/ Overlaps(sn, st.tunnel_ip_range)
       \/ Overlaps(sn, st.shared_services_range)

\* the step answers the create_peer request r
Left(r) ==
    /\ r \in store.open
    /\ r.op = "create_peer"
    /\ \A q \in store'.open : q.id # r.id

\* the conflicts decide at the check, rejections store nothing; answered400
\* tells when a request may be answered 400
CreatePeerRejections(answered400(_)) ==
    \A r \in store.open :
       /\ (r.op = "create_peer" /\ r.pc = "check"
              /\ r \notin store'.open)
             => /\ HasCritical(store, LocalSubnets(r.arg)) <=> Left(r)
                /\ Left(r) => store'.answer.status = 400
                /\ \A c \in StoreConflicts(store, LocalSubnets(r.arg)) :
                      c.severity = "critical"
                         <=> (/\ c.conflict_type \in {"tunnel_ip_overlap",
                                                      "shared_services_overlap"}
                              /\ c.suggested_resolutions =
                                    {"dont_route", "use_nat", "change_subnet"})
       /\ (Left(r) /\ store'.answer.status = 400)
             => /\ answered400(r)
                /\ store'.peers = store.peers
                /\ store'.subnets = store.subnets
       /\ (Left(r) /\ HasCritical(store, LocalSubnets(r.arg)) /\ r.pc = "check")
             => store'.answer.status = 400

OnCritical(r) == HasCritical(store, LocalSubnets(r.arg))

OnCriticalOrNoTunnelIp(r) ==
    \/ HasCritical(store, LocalSubnets(r.arg))
    \/ \A i \in DOMAIN GetAvailableHosts(r.range) :
          GetAvailableHosts(r.range)[i] \in GetAllocatedTunnelIps(store)

\* C26: create_peer is answered 400 exactly when a submitted local subnet
\* overlaps the tunnel range or the shared services range (critical, with
\* the suggestions dont_route, use_nat, change_subnet); a rejected creation
\* stores no peer, no subnet and no tunnel IP; overlaps with the subnets of
\* other peers do not block.
C26_RejectedExactlyOnCritical == [][CreatePeerRejections(OnCritical)]_vars

\* C26 (amended): as above, but 400 is also the answer when no tunnel IP is
\* free.
C26_RejectedOnCriticalOrNoTunnelIp ==
    [][CreatePeerRejections(OnCriticalOrNoTunnelIp)]_vars

\* a peer was created with a subnet that overlaps the subnet of another peer,
\* and a creation with a critical conflict was answered 400 without a peer
\* being stored
C26_Witness ==
    /\ \E l1, l2 \in store.subnets :
          /\ l1.peer_id # l2.peer_id
          /\ Overlaps(l1.cidr, l2.cidr)
    /\ store.answer = [op |-> "create_peer", status |-> 400, ip |-> None]
    /\ Cardinality(store.peers) = 2
    /\ store.started = 3
    /\ store.open = {}

\* the entries of a listed AllowedIPs
Listed(block) == {block.allowed_ips[i] : i \in 1..Len(block.allowed_ips)}

\* C27: in the WireGuard text of P every [Peer] block of another peer O lists
\* AllowedIPs without duplicates, with O's tunnel_ip/32 when O has one, with
\* the shared services range, with the translated cidr of each routed subnet
\* under NAT and the raw cidr of each routed subnet without NAT, and with
\* 0.0.0.0/0 only if P routes all traffic and O has an endpoint.
C27_AllowedIps ==
    reply.op = "wireguard-config" =>
       \A i \in 1..Len(reply.body) :
          LET block == reply.body[i]
              O == PeerOf(GenPeers, block.peer_id)
          IN  /\ O.id # reply.peer_id
              /\ \A a, b \in 1..Len(block.allowed_ips) :
                    block.allowed_ips[a] = block.allowed_ips[b] => a = b
              /\ O.tunnel_ip # "" => <<O.tunnel_ip, "/32">> \in Listed(block)
              /\ <<SharedServicesRange, "">> \in Listed(block)
              /\ \A k \in 1..Len(O.local_subnets) :
                    LET subnet == O.local_subnets[k]
                    IN  subnet.is_routed =>
                           /\ (subnet.nat_enabled /\ subnet.nat_translated_cidr # "")
                                 => <<subnet.nat_translated_cidr, "">> \in Listed(block)
                           /\ ~subnet.nat_enabled
                                 => <<subnet.cidr, "">> \in Listed(block)
              /\ <<"0.0.0.0/0", "">> \in Listed(block)
                    => (/\ "route_all_traffic"
                              \in peer_columns[reply.peer_id].peer_metadata
                        /\ O.endpoint # "")

\* the text of a peer that routes all traffic: the block of a peer with an
\* endpoint lists the default route, a translated subnet and no duplicates
C27_Witness ==
    /\ reply.op = "wireguard-config"
    /\ reply.peer_id = "p1"
    /\ overlay = 2
    /\ Len(reply.body) = 1
    /\ <<"0.0.0.0/0", "">> \in Listed(reply.body[1])
    /\ <<"10.99.10.0/24", "">> \in Listed(reply.body[1])
    /\ <<"192.168.40.0/24", "">> \in Listed(reply.body[1])
    /\ Len(reply.body[1].allowed_ips) = 5

\* C28: two computations of the desired state of the same managed peer, one
\* after the other with the overlay unchanged, return equal structures, and
\* a computation changes nothing of the overlay.
C28_DesiredStateStable ==
    [][reply'.op = "desired-state"
          => /\ (reply.op = "desired-state" /\ reply.peer_id = reply'.peer_id)
                   => reply'.body = reply.body
             /\ overlay' = overlay
             /\ peer_columns' = peer_columns
             /\ store' = store]_vars

\* the NAT rules of the desired state in the answer, and the services they
\* are computed from
NatRules == reply.body.nat_rules

Services == PeerOf(GenPeers, reply.peer_id).published_services

ExpectedProtocols(service) ==
    IF service.protocol = "both" THEN {"tcp", "udp"} ELSE {service.protocol}

\* C29: the desired NAT rules of a managed peer are, for every active service
\* and each of its protocols (tcp and udp for both), exactly one dstnat rule
\* with dst-address shared_ip, action dst-nat, to-addresses local_ip, dst-port
\* iff shared_port > 0, to-ports iff local_port > 0 and the comment
\* prefix + "service-<id>"; inactive services have no rule.
C29_NatRules ==
    reply.op = "desired-state" =>
       /\ \A k \in 1..Len(Services) :
             LET service == Services[k]
                 rules(proto) ==
                    {i \in 1..Len(NatRules) :
                        /\ NatRules[i].comment =
                              <<COMMENT_PREFIX, "service-", service.id>>
                        /\ NatRules[i].data[3] = proto}
             IN  IF service.is_active
                 THEN \A proto \in {"tcp", "udp"} :
                         IF proto \in ExpectedProtocols(service)
                         THEN /\ Cardinality(rules(proto)) = 1
                              /\ \A i \in rules(proto) :
                                    LET d == NatRules[i].data
                                    IN  /\ d[1] = "dstnat"
                                        /\ d[2] = service.shared_ip
                                        /\ d[4] = "dst-nat"
                                        /\ d[5] = service.local_ip
                                        /\ d[6] # "" <=> service.shared_port > 0
                                        /\ d[7] # "" <=> service.local_port > 0
                                        /\ service.shared_port > 0
                                              => d[6] = ToString(service.shared_port)
                                        /\ service.local_port > 0
                                              => d[7] = ToString(service.local_port)
                         ELSE rules(proto) = {}
                 ELSE \A i \in 1..Len(NatRules) :
                         NatRules[i].comment #
                            <<COMMENT_PREFIX, "service-", service.id>>
       /\ \A i \in 1..Len(NatRules) :
             \E k \in 1..Len(Services) :
                NatRules[i].comment =
                   <<COMMENT_PREFIX, "service-", Services[k].id>>

\* the NAT rules of a peer with a service on both protocols without ports,
\* an inactive service and a udp service with a shared port only
C29_Witness ==
    /\ reply.op = "desired-state"
    /\ overlay = 2
    /\ Len(NatRules) = 3
    /\ \E i \in 1..3 : NatRules[i].data[6] = "" /\ NatRules[i].data[7] = ""
    /\ \E i \in 1..3 : NatRules[i].data[6] = "5353" /\ NatRules[i].data[7] = ""

\* the message tells the operator to enter the credentials again
GivesGuidance(error_message) ==
    \E i \in 1..Len(error_message) :
       error_message[i] = CannotDecrypt.message

\* C30: an apply that meets a stored secret it cannot decrypt ends as a
\* failed job whose error_message tells to re-enter the credentials; plan,
\* preflight, verify and clear answer such a peer with an error result, the
\* exception does not leave the endpoint unhandled.
C30_DecryptFailureHandled ==
    [][/\ \A j \in JobIds :
             (/\ \E secret \in SecretAt(task[j].pc) :
                    <<jobs[j].peer_id, secret>> \in undecryptable
              /\ task'[j] # task[j])
                => /\ jobs'[j].status = "failed"
                   /\ GivesGuidance(jobs'[j].error_message)
       /\ (/\ reply'.op \in {"deploy", "preflight", "verify", "clear"}
           /\ reply'.status = 500)
             => \A i \in reply'.issues : i[1] # "unhandled"]_vars

\* the issue verify has for a desired resource d of a family when nothing on
\* the router stands for it
MissingIssue(family, d) ==
    CASE family = "ip_addresses" -> <<"missing-ip">> \o d.data
      [] family = "routes" -> <<"missing-route", d.data[1]>>
      [] family = "firewall_filter_rules" -> <<"missing-firewall">> \o d.comment
      [] family = "nat_rules" -> <<"missing-nat">> \o d.comment
      [] family = "wireguard_peers" -> <<"missing-peer">> \o d.comment

\* the families verify compares field by field, with the name its issues use
DriftKind(family) ==
    CASE family = "firewall_filter_rules" -> "firewall"
      [] family = "nat_rules" -> "nat"
      [] family = "routes" -> "route"

\* a verify of a MikroTik peer has just answered
Verified ==
    /\ reply.op = "verify"
    /\ reply.status = 200
    /\ GetPeer(reply.peer_id).type = "mikrotik"

\* C31: after verify, every desired address, route, firewall rule, NAT rule
\* and peer entry whose comment no managed resource of its family carries is
\* named by a missing issue, and every desired firewall rule, NAT rule and
\* route that has managed resources under its comment, none of which equals
\* it on the compared fields, is named by a differs issue or by a missing
\* issue; this also for desired resources that share a comment.
C31_VerifyReportsMissingAndDrift ==
    Verified =>
       LET desired == DesiredStates[overlay][reply.peer_id]
           current == GetManagedResources(router)
       IN  /\ \A family \in {"ip_addresses", "routes", "firewall_filter_rules",
                             "nat_rules", "wireguard_peers"} :
                 \A d \in SeqRange(desired[family]) :
                    (\A r \in current[family] : r.comment # d.comment)
                       => MissingIssue(family, d) \in reply.issues
           /\ \A family \in {"firewall_filter_rules", "nat_rules", "routes"} :
                 \A d \in SeqRange(desired[family]) :
                    (/\ \E r \in current[family] : r.comment = d.comment
                     /\ \A r \in current[family] :
                           r.comment = d.comment => r.data # d.data)
                       => \/ MissingIssue(family, d) \in reply.issues
                          \/ \E i \in reply.issues :
                                /\ i[1] = "differs"
                                /\ i[2] = DriftKind(family)
                                /\ SubSeq(i, 3, Len(i) - 1) = d.comment

\* a preflight of a MikroTik peer has just answered
Preflighted ==
    /\ reply.op = "preflight"
    /\ reply.status = 200
    /\ GetPeer(reply.peer_id).type = "mikrotik"

\* the entries of a family that the operator owns
ForeignOf(family) == {r \in router[family] : ~StartsWithPrefix(r.comment)}

\* some issue of the reply has the given type
IssueOfType(type) == \E i \in reply.issues : i[1] = type

\* C32: preflight answers success exactly when it has no issue, and it has
\* an issue whenever a foreign interface has the desired name or the desired
\* listen port, or a foreign address, route, NAT rule or firewall rule has
\* the address, destination or key of a desired one; this also when the
\* conflict detection raised.
C32_PreflightReportsClashes ==
    Preflighted =>
       LET desired == DesiredStates[overlay][reply.peer_id]
       IN  /\ reply.in_sync = (reply.issues = {})
           /\ (\E r \in ForeignOf("wireguard_interfaces") :
                  r.name = desired.interface.name)
                 => IssueOfType("interface-name")
           /\ (\E r \in ForeignOf("wireguard_interfaces") :
                  r.data[1] = desired.interface.data[1])
                 => IssueOfType("interface-name") \/ IssueOfType("listen-port")
           /\ (\E r \in ForeignOf("ip_addresses"),
                  d \in SeqRange(desired.ip_addresses) : r.data = d.data)
                 => IssueOfType("ip-address")
           /\ (\E r \in ForeignOf("routes"),
                  d \in SeqRange(desired.routes) : r.data[1] = d.data[1])
                 => IssueOfType("route")
           /\ (\E r \in ForeignOf("nat_rules"),
                  d \in SeqRange(desired.nat_rules) :
                     /\ r.data[1] = d.data[1]
                     /\ r.data[2] = d.data[2]
                     /\ r.data[6] = d.data[6])
                 => IssueOfType("nat")
           /\ (\E r \in ForeignOf("firewall_filter_rules"),
                  d \in SeqRange(desired.firewall_filter_rules) :
                     r.data = d.data)
                 => IssueOfType("firewall")

\* the entries of a desired state, the interface included
DesiredEntries(desired) ==
    {desired.interface}
    \cup UNION {SeqRange(desired[f]) : f \in Families \ {"wireguard_interfaces"}}

\* C33: every entry of the desired state of a MikroTik peer has a comment
\* that starts with the prefix, whatever the overlay holds, and every
\* resource a step of an apply adds to the router has such a comment and is
\* among the managed resources that a later apply or clear lists.
C33_DesiredIsManaged ==
    [][/\ \A p \in PeerIds :
             GetPeer(p).type = "mikrotik"
                => \A d \in DesiredEntries(DesiredStates[overlay][p]) :
                      StartsWithPrefix(d.comment)
       /\ \A f \in Families :
             \A r \in router'[f] :
                r.id \notin Ids(router[f])
                   => /\ StartsWithPrefix(r.comment)
                      /\ r \in GetManagedResources(router')[f]]_vars

\* an apply has added the route to the shared services range
C33_Witness ==
    \E j \in JobIds :
       /\ Len(task[j].lastWrite) = 3
       /\ task[j].lastWrite[1] = "routes"
       /\ task[j].lastWrite[2] = "add"
       /\ \E r \in router["routes"] :
             /\ r.id = task[j].lastWrite[3]
             /\ r.data[1] = SharedServicesRange

\* network inner lies inside network outer
Inside(inner, outer) ==
    /\ inner.prefixlen >= outer.prefixlen
    /\ NetworkAddress(Cidr(inner.address, outer.prefixlen)) = outer.address

\* C34: the subnet find_available_nat_subnet returns has the prefix length
\* of the conflicting subnet, overlaps no existing subnet, and lies inside
\* 172.16.0.0/12 or, when every 172 candidate is taken, inside
\* 192.168.0.0/16; it returns nothing only when every candidate is taken.
C34_NatSubnetInsidePrivateRanges ==
    reply.op = "find-nat-subnet" =>
       LET conflicting_subnet == reply.body[1]
           result == reply.body[2]
           existing_subnets == reply.issues
           prefixlen == conflicting_subnet.prefixlen - 8
       IN  IF result = NoSubnet
           THEN /\ \A base \in 16..31 :
                      ConflictFound(Candidate172(base, prefixlen),
                                    existing_subnets)
                /\ \A third_octet \in 0..255 :
                      ConflictFound(Candidate192(third_octet, prefixlen),
                                    existing_subnets)
           ELSE /\ result.prefixlen = conflicting_subnet.prefixlen
                /\ \A existing \in existing_subnets : ~Overlaps(result, existing)
                /\ \/ Inside(result, IpNetwork(172, 16, 0, 12))
                   \/ /\ Inside(result, IpNetwork(192, 168, 0, 16))
                      /\ \A base \in 16..31 :
                            ConflictFound(Candidate172(base, prefixlen),
                                          existing_subnets)

\* the text is a port in 1..65535
PortInRange(text) == IsInt(text) /\ 1 <= IntOf(text) /\ IntOf(text) <= 65535

\* the text is a host name or IPv4 address, or an IPv6 address in brackets
HostForm(text) ==
    /\ text # <<>>
    /\ \/ \A i \in 1..Len(text) : text[i] \notin {":", "[", "]"}
       \/ /\ Len(text) >= 3
          /\ text[1] = "["
          /\ text[Len(text)] = "]"
          /\ \A i \in 2..(Len(text) - 1) : text[i] \notin {"[", "]"}

\* the endpoint is host:port or [ipv6]:port
HostPortForm(endpoint) ==
    /\ Len(endpoint) >= 3
    /\ endpoint[Len(endpoint) - 1] = ":"
    /\ HostForm(SubSeq(endpoint, 1, Len(endpoint) - 2))
    /\ PortInRange(SubSeq(endpoint, Len(endpoint), Len(endpoint)))

\* the request names a host, an IPv4 address or a bracketed IPv6 address,
\* alone or with a port in 1..65535, or a bare IPv6 address
AcceptedForm(v) ==
    \E host \in EndpointHosts :
       \/ v = host
       \/ /\ Colons(host) = {} \/ host[1] = "["
          /\ \E n \in Numerals :
                1 <= n /\ n <= 65535 /\ v = host \o <<":", ToString(n)>>

\* C35: for a request endpoint of an accepted form, the endpoint stored for
\* the peer is host:port or [ipv6]:port with a port in 1..65535; and the
\* endpoint-address and endpoint-port of the router's entry for a peer
\* whose stored endpoint has that form are that host and that port.
C35_EndpointHostAndPort ==
    /\ (reply.op = "create-peer" /\ AcceptedForm(reply.body))
          => HostPortForm(peer_columns[reply.peer_id].endpoint)
    /\ (/\ reply.op = "desired-endpoint"
        /\ HostPortForm(peer_columns[reply.peer_id].endpoint))
          => LET endpoint == peer_columns[reply.peer_id].endpoint
             IN  /\ reply.body # <<>>
                 /\ reply.body[1] = SubSeq(endpoint, 1, Len(endpoint) - 2)
                 /\ reply.body[2] = SubSeq(endpoint, Len(endpoint), Len(endpoint))

\* C36: every job row in a terminal status has completed_at set, and a job
\* row has progress_percent = 100 exactly when its status is completed.
C36_TerminalJobsAreStamped ==
    \A j \in JobIds :
       ~jobs[j].deleted
          => /\ jobs[j].status \in Terminal => jobs[j].completed_at
             /\ jobs[j].progress_percent = 100 <=> jobs[j].status = "completed"

\* C37: under fair scheduling of the workers, every job that has been
\* created and is not deleted eventually has a terminal status.
C37_JobsTerminate ==
    \A j \in 1..MaxJobs :
       (j \in JobIds)
          ~> (j \in JobIds /\ (jobs[j].deleted \/ jobs[j].status \in Terminal))

\* C38: no stored local subnet of a peer overlaps the tunnel range or the
\* shared services range of its WAN, and a request of add_subnet whose cidr
\* overlaps one of them is not answered with success.
C38_NoStoredSubnetInsideWanRanges ==
    /\ \A l \in store.subnets :
          /\ ~Overlaps(l.cidr, store.tunnel_ip_range)
          /\ ~Overlaps(l.cidr, store.shared_services_range)
    /\ (reply.op = "add-subnet" /\ reply.status = 200)
          => \A c \in reply.issues : c.severity # "critical"
\* C39: the plan of a peer that directly follows the completion of its apply,
\* the router and the overlay being as the apply left them, has nothing to
\* create and nothing to delete in any family, and counts as many managed
\* comments on the router as in the desired state.
C39_PlanEmptyAfterApply ==
    [][(/\ reply.op = "apply-completed"
        /\ reply'.op = "deploy"
        /\ reply'.peer_id = reply.peer_id
        /\ reply'.status = 200
        /\ ~reply'.approve
        /\ jobs' = jobs)
          => \A k \in PlanKinds :
                /\ reply'.plan[k][1] = 0
                /\ reply'.plan[k][2] = 0
                /\ reply'.plan[k][3] = reply'.plan[k][4]]_vars
\* C40: with REQUIRE_DEPLOY_APPROVAL on, every step that creates a deployment
\* job is the answer to a deploy request that carried approve=true: a retry
\* and a service creation with auto_deploy create none.
C40_JobsNeedApproval ==
    [][(REQUIRE_DEPLOY_APPROVAL /\ Len(jobs') > Len(jobs))
          => reply'.op = "deploy" /\ reply'.approve]_vars
====
